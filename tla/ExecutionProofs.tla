-------------------------- MODULE ExecutionProofs --------------------------
(***************************************************************************)
(* Proofs about Execution, for any number of appliers, grants, files and   *)
(* plans: what the ledger says of a plan is what the files show, wherever  *)
(* the process died, and what reaches review was delivered under the lease *)
(* it is reviewed for.                                                     *)
(***************************************************************************)
EXTENDS Execution, TaskStoreProofs, TLAPS

Active(a) == step[a].at # "rest"

\* One transaction at a time is under way: the grant consumed last, carried by
\* at most one applier, and never while the runtime cycle is running.
OneTransaction ==
  /\ \A g \in Grants : grant[g].st = "APPLYING" => g = last
  /\ \A g \in Grants : grant[g].st # "NONE" => grant[g].task \in Tasks
  /\ last # NoGrant => /\ grant[last].st \in {"APPLYING", "APPLIED", "FAILED", "INTEGRITY_BLOCKED"}
                       /\ Plan(last) \in Plans
  /\ \A a \in Appliers :
       IF Active(a) THEN step[a].g = last /\ last \in Applying /\ cycle = NoCycle
                    ELSE step[a] = Resting
  /\ \A a, b \in Appliers : Active(a) /\ Active(b) => a = b
  /\ cycle.at = "rest" => cycle = NoCycle
  /\ cycle.at \in {"condemn", "settle"} => cycle.g = last /\ last \in Applying

\* The first n operations of p are done, the others are not.
Done(p, n) == \A j \in 1..Len(p) : disk[p[j].file] = IF j <= n THEN p[j].post ELSE p[j].pre
\* Every file of p is old or new; those of the operations after n are old.
Restored(p, n) ==
  \A j \in 1..Len(p) :
    /\ disk[p[j].file] \in {p[j].pre, p[j].post}
    /\ j > n => disk[p[j].file] = p[j].pre

\* How far an applier is with plan p, from where it is in the code.
Reached(a, p) ==
  LET at == step[a].at
      i == step[a].i
  IN  /\ at \in {"check", "failed"} => Done(p, 0)
      /\ at \in {"ready", "write"} => i \in 1..Len(p) /\ Done(p, i - 1)
      /\ at = "unlink" => i \in 1..Len(p) /\ Done(p, i)
      /\ at \in {"final", "commit"} => Done(p, Len(p))
      /\ at = "undo" => i \in 0..Len(p) /\ Restored(p, i)
      /\ at = "blocked" => space = "INTEGRITY_BLOCKED"
StepsFollowFiles == \A a \in Appliers : Active(a) => Reached(a, Plan(last))

\* What recover read is still so when it writes.
CycleFollowsFiles ==
  /\ cycle.at = "condemn" => cycle.saw = "mixed"
  /\ cycle.at = "settle" =>
       IF cycle.saw \in {"pre", "post"}
         THEN /\ space = "AVAILABLE" /\ Readable(Plan(last))
              /\ cycle.saw = "pre" => ShowsPre(Plan(last))
              /\ cycle.saw = "post" => ShowsPost(Plan(last))
         ELSE space = "INTEGRITY_BLOCKED"

WorkInv == OneTransaction /\ StepsFollowFiles /\ CycleFollowsFiles /\ LedgerMatchesDisk
LedgerInv == TypeOK /\ XTypeOK /\ WorkInv

\* recover refuses the grant: it stays open.
Stuck(g) == space # "AVAILABLE" \/ ~Readable(Plan(g))

\* recover would settle the grant, or an applier is carrying it out.
Settleable(g) == space = "AVAILABLE" /\ (Readable(Plan(g)) \/ \E a \in Appliers : Active(a))

\* A task on lease under an open transaction that may yet be settled is on the
\* lease the grant was issued for.
LeaseOfOpenGrant ==
  \A g \in Applying :
    Settleable(g) /\ state[grant[g].task] \in OnLease => lease[grant[g].task] = grant[g].lease

\* Work is routed after every open transaction was settled or found stuck.
RecoveredBeforeRouting ==
  \A g \in Applying :
    /\ cycle.at = "recover" => g \in cycle.todo \/ Stuck(g)
    /\ cycle.at \in {"condemn", "settle"} => g \in cycle.todo \/ g = cycle.g \/ Stuck(g)
    /\ cycle.at = "route" => Stuck(g)

EvidenceInv == LedgerInv /\ LeaseOfOpenGrant /\ RecoveredBeforeRouting /\ ReviewHasEvidence

-----------------------------------------------------------------------------
(* Types. *)

\* A transaction is settled only while it is under way, and a grant that is
\* settled keeps everything else it says.
LEMMA Settled ==
  ASSUME XTypeOK, NEW g \in Grants, NEW s \in GrantStates, SetGrant(g, s) \/ SettleGrant(g, s)
  PROVE  /\ \A h \in Grants : /\ Plan(h)' = Plan(h) /\ grant'[h].task = grant[h].task
                              /\ grant'[h].lease = grant[h].lease
                              /\ h # g => grant'[h] = grant[h]
         /\ grant'[g].st = s \/ grant' = grant
         /\ grant[g].st = "APPLYING" \/ SetGrant(g, s) => grant'[g].st = s
         /\ grant' \in [Grants -> GrantRow]
<1>1. CASE grant' = grant
  BY <1>1 DEF XTypeOK, SetGrant, SettleGrant, Plan, GrantRow
<1>2. CASE SetGrant(g, s)
  <2>1. /\ grant' = [h \in Grants |-> IF h = g THEN [grant[g] EXCEPT !.st = s] ELSE grant[h]]
        /\ grant[g] \in GrantRow
    BY <1>2 DEF SetGrant, XTypeOK
  <2>2. [grant[g] EXCEPT !.st = s] \in GrantRow
    BY <2>1 DEF GrantRow
  <2> QED
    BY <1>2, <2>1, <2>2 DEF XTypeOK, Plan, GrantRow, SetGrant
<1> QED
  BY <1>1, <1>2 DEF SettleGrant, SetGrant

\* What a step of Execution does to the tasks and workers of the store: one of the
\* store's own transactions, a statement of a call of the gateway or of the cycle,
\* the loss of such calls, or a delivery from RUNNING.
Delivered(t) ==
  /\ state[t] = "RUNNING" /\ SendToReview(t)
  /\ \E g \in Applying : Settleable(g) /\ grant[g].task = t /\ grant'[g].st = "APPLIED"
Forgotten ==
  /\ pending' = [c \in Clients |-> Idle] \/ \E c \in {Gateway, Supervisor} : Carry(c, Idle)
  /\ UNCHANGED <<taskVars, workerVars>>
CallMade ==
  \/ \E t \in Tasks : FailRead(Gateway, t) \/ StaleRead(Supervisor, t)
  \/ \E d \in Lags : StaleSelect(Supervisor, d)
  \/ Forgotten
LateWrite == FailWrite(Gateway) \/ StaleWrite(Supervisor)
StoreStep ==
  \/ UNCHANGED vars
  \/ Tick
  \/ \E w \in Workers, k \in Capacities : RegisterWorker(w, k, 0) \/ Heartbeat(w, 0, k, 0)
  \/ \E t \in Tasks :
       \/ CreateTask(t) \/ Start(t, 0) \/ MarkWaitingCapacity(t)
       \/ CycleAt("route") /\ \E w \in Workers, d \in Lags : Claim(t, w, d)
       \/ \E e \in Evidence : SubmitResult(t, e, 0)
       \/ \E d \in Lags : ReclaimExpired(t, d)
       \/ Delivered(t)
  \/ CallMade \/ LateWrite

LEMMA StoreSteps ==
  ASSUME LedgerInv, [XNext]_xvars
  PROVE  StoreStep
<1>1. CASE UNCHANGED xvars
  BY <1>1 DEF xvars, StoreStep
<1>2. CASE XTick
  BY <1>2 DEF XTick, StoreStep
<1>3. CASE WorkerSide
  <2>1. CASE FailureLands
    BY <2>1 DEF FailureLands, Crash, StoreStep, CallMade, Forgotten, LateWrite
  <2> QED
    BY <1>3, <2>1 DEF WorkerSide, WorkerJoins, WorkerBeats, WorkerAnswers, IssueGrant,
       StoreStep, CallMade
<1>4. CASE RuntimeStep
  <2>1. CASE BeginCycle \/ ReconcileStale \/ SelectExpired \/ Reconciled \/ \E t \in Tasks : Reclaim(t)
    BY <2>1 DEF BeginCycle, ReconcileStale, SelectExpired, Reconciled, Reclaim,
       StoreStep, CallMade, LateWrite
  <2>2. ASSUME RecoverWrite PROVE StoreStep
    <3>1. CASE UNCHANGED vars
      BY <3>1 DEF StoreStep
    <3>2. CASE /\ cycle.saw = "post" /\ state[grant[cycle.g].task] = "RUNNING"
               /\ SettleGrant(cycle.g, "APPLIED") /\ SendToReview(grant[cycle.g].task)
      <4>1. cycle.g = last /\ last \in Applying /\ last \in Grants /\ grant[last].task \in Tasks
        BY <2>2 DEF RecoverWrite, CycleAt, LedgerInv, WorkInv, OneTransaction, Applying
      <4>2. Settleable(last)
        BY <2>2, <3>2 DEF RecoverWrite, CycleAt, LedgerInv, WorkInv, CycleFollowsFiles, Settleable
      <4>3. grant'[last].st = "APPLIED"
        BY <3>2, <4>1, Settled DEF LedgerInv, GrantStates, Applying
      <4> QED
        BY <3>2, <4>1, <4>2, <4>3 DEF StoreStep, Delivered
    <3> QED
      BY <2>2, <3>1, <3>2 DEF RecoverWrite
  <2> QED
    BY <1>4, <2>1, <2>2 DEF RuntimeStep, RecoverBlock, Recovered, EndCycle,
       RecoverRead, RouteNobody, Route, StoreStep
<1>5. CASE AbortCycle \/ Crashes
  BY <1>5 DEF AbortCycle, Crashes, Crash, StoreStep, CallMade, Forgotten
<1>6. ASSUME NEW a \in Appliers, ApplyStep(a) PROVE StoreStep
  <2>1. ASSUME NEW d \in Lags, Commit(a, d) PROVE StoreStep
    <3>1. state[grant[step[a].g].task] = "RUNNING" /\ space = "AVAILABLE"
      BY <2>1 DEF Commit, Fit, Authority
    <3>2. /\ step[a].g \in Applying /\ step[a].g \in Grants /\ grant[step[a].g].task \in Tasks
          /\ Settleable(step[a].g)
      BY <2>1, <3>1 DEF Commit, AtStep, Active, LedgerInv, WorkInv, OneTransaction, Applying, Settleable
    <3>3. grant'[step[a].g].st = "APPLIED"
      BY <2>1, <3>2, Settled DEF Commit, LedgerInv, GrantStates
    <3> QED
      BY <2>1, <3>1, <3>2, <3>3 DEF Commit, StoreStep, Delivered
  <2> QED
    BY <1>6, <2>1 DEF ApplyStep, Progress, Check, Authorize, Write, Unlink, Verify, Raise, Undo,
       UndoRaises, Condemn, Terminalize, Expire, Consume, StoreStep
<1> QED
  BY <1>1, <1>2, <1>3, <1>4, <1>5, <1>6 DEF XNext

LEMMA StoreTypesKept ==
  ASSUME TypeOK, StoreStep
  PROVE  TypeOK'
<1> USE StoreConstants
<1>1. CASE UNCHANGED vars
  BY <1>1 DEF vars, TypeOK
<1>2. CASE Tick
  BY <1>2 DEF Tick, TypeOK
<1>3. ASSUME NEW w \in Workers, NEW k \in Capacities, RegisterWorker(w, k, 0) \/ Heartbeat(w, 0, k, 0)
      PROVE  TypeOK'
  BY <1>3 DEF RegisterWorker, Heartbeat, TypeOK, taskVars
<1>4. ASSUME NEW t \in Tasks, CreateTask(t) \/ Start(t, 0) \/ MarkWaitingCapacity(t) PROVE TypeOK'
  BY <1>4 DEF CreateTask, Start, MarkWaitingCapacity, TypeOK, States, Leaseable, OnLease, workerVars
<1>5. ASSUME NEW t \in Tasks, NEW w \in Workers, NEW d \in Lags, Claim(t, w, d) PROVE TypeOK'
  BY <1>5 DEF Claim, TakeLease, TypeOK, States, OnLease, Lags, workerVars
<1>6. ASSUME NEW t \in Tasks, NEW e \in Evidence, SubmitResult(t, e, 0) PROVE TypeOK'
  BY <1>6 DEF SubmitResult, TypeOK, States, Verdicts, workerVars
<1>7. ASSUME NEW t, NEW a \in Nat, Charge(t, a), pending' \in [Clients -> CallType] PROVE TypeOK'
  <2>1. PICK s \in {"DEAD_LETTER", "RETRYING"} : ChargeTo(t, a, s)
    BY <1>7 DEF Charge
  <2>2. s \in States
    BY DEF States, Leaseable
  <2>3. /\ state' \in [Tasks -> States] /\ owner' \in [Tasks -> Workers \cup {NoWorker}]
        /\ lease' \in [Tasks -> Nat] /\ ttl' \in [Tasks -> Int] /\ attempts' \in [Tasks -> Nat]
    <3>1. ASSUME NEW f, NEW S, f \in [Tasks -> S], NEW x \in S PROVE [f EXCEPT ![t] = x] \in [Tasks -> S]
      BY <3>1
    <3>2. 0 \in Nat /\ 0 \in Int /\ NoWorker \in Workers \cup {NoWorker}
      OBVIOUS
    <3> QED
      BY <1>7, <2>1, <2>2, <3>1, <3>2 DEF ChargeTo, TypeOK
  <2>4. UNCHANGED <<verdict, rows, granted, age, capacity>>
    BY <2>1 DEF ChargeTo, workerVars
  <2>5. UNCHANGED <<verdict, rows, granted, age, capacity>> /\ TypeOK =>
        /\ verdict' \in [Tasks -> Verdicts] /\ rows' \in [Tasks -> SUBSET Evidence]
        /\ granted' \in [Tasks -> Nat] /\ age' \in [Workers -> Int]
        /\ capacity' \in [Workers -> Nat \cup {-1}]
    BY DEF TypeOK
  <2> QED
    BY <1>7, <2>3, <2>4, <2>5 DEF TypeOK, CallType
<1>8. ASSUME NEW t \in Tasks, Delivered(t) PROVE TypeOK'
  BY <1>8 DEF Delivered, SendToReview, TypeOK, States, Verdicts, workerVars
<1>9. ASSUME NEW t \in Tasks, NEW d \in Lags, ReclaimExpired(t, d) PROVE TypeOK'
  BY <1>7, <1>9 DEF ReclaimExpired, TypeOK, CallType
<1>10. /\ pending \in [Clients -> CallType] /\ Idle \in CallType /\ {Gateway, Supervisor} \subseteq Clients
  BY ExecutionConstants DEF TypeOK, CallType, Idle, Call, Ops
<1>11. ASSUME NEW c \in Clients, NEW call \in CallType, Carry(c, call)
       PROVE  pending' \in [Clients -> CallType]
  BY <1>10, <1>11 DEF Carry
<1>12. CASE CallMade
  <2>1. ASSUME pending' \in [Clients -> CallType], UNCHANGED <<taskVars, workerVars>> PROVE TypeOK'
    BY <2>1 DEF taskVars, workerVars, TypeOK, CallType
  <2>2. ASSUME NEW t \in Tasks, FailRead(Gateway, t) PROVE TypeOK'
    <3>1. Call("failing", t, NoWorker, attempts[t], {}) \in CallType
      BY DEF Call, CallType, Ops, TypeOK
    <3> QED
      BY <1>10, <1>11, <2>1, <2>2, <3>1 DEF FailRead
  <2>3. ASSUME NEW t \in Tasks, StaleRead(Supervisor, t) PROVE TypeOK'
    <3>1. Call("staling", t, NoWorker, attempts[t], pending[Supervisor].todo) \in CallType
      BY <1>10 DEF Call, CallType, Ops, TypeOK
    <3> QED
      BY <1>10, <1>11, <2>1, <2>3, <3>1 DEF StaleRead
  <2>4. ASSUME NEW d \in Lags, StaleSelect(Supervisor, d) PROVE TypeOK'
    <3>1. PICK todo \in SUBSET Tasks : Carry(Supervisor, Call("stale", NoTask, NoWorker, 0, todo))
      BY <2>4 DEF StaleSelect
    <3>2. Call("stale", NoTask, NoWorker, 0, todo) \in CallType
      BY DEF Call, CallType, Ops
    <3> QED
      BY <1>10, <1>11, <2>1, <2>4, <3>1, <3>2 DEF StaleSelect
  <2> QED
    BY <1>10, <1>11, <1>12, <2>1, <2>2, <2>3, <2>4 DEF CallMade, Forgotten
<1>13. CASE LateWrite
  <2>1. CASE FailWrite(Gateway)
    BY <1>7, <1>10, <1>11, <2>1 DEF FailWrite, CallType
  <2>2. CASE StaleWrite(Supervisor)
    <3> DEFINE t == pending[Supervisor].task
               rest == pending[Supervisor].todo \ {t}
    <3>1. /\ Charge(t, pending[Supervisor].att + 1) /\ pending[Supervisor].att + 1 \in Nat
          /\ Carry(Supervisor, Idle) \/ Carry(Supervisor, Call("stale", NoTask, NoWorker, 0, rest))
      BY <1>10, <2>2 DEF StaleWrite, Continue, CallType
    <3>2. Call("stale", NoTask, NoWorker, 0, rest) \in CallType
      BY <1>10 DEF Call, CallType, Ops
    <3>3. pending' \in [Clients -> CallType]
      BY <1>10, <1>11, <3>1, <3>2
    <3> QED
      BY <1>7, <3>1, <3>3
  <2> QED
    BY <1>13, <2>1, <2>2 DEF LateWrite
<1> QED
  BY <1>1, <1>2, <1>3, <1>4, <1>5, <1>6, <1>8, <1>9, <1>12, <1>13 DEF StoreStep

FileOperation == [file : Files, pre : Contents, post : Contents]
LEMMA OperationOf ==
  ASSUME NEW p \in Plans, NEW i \in 1..Len(p)
  PROVE  p[i] \in FileOperation /\ p[i].file \in Files /\ p[i].pre \in Contents /\ p[i].post \in Contents
<1>1. p \in Seq(FileOperation)
  BY ExecutionConstants DEF FileOperation
<1>2. p[i] \in FileOperation
  BY <1>1
<1> QED
  BY <1>2 DEF FileOperation

LEMMA XTypesKept ==
  ASSUME LedgerInv, [XNext]_xvars
  PROVE  XTypeOK'
<1> USE ExecutionConstants DEF LedgerInv, WorkInv
<1>1. CASE UNCHANGED xvars
  BY <1>1 DEF xvars, memory, files, XTypeOK
<1>2. CASE XTick
  <2>1. ASSUME NEW g \in Grants PROVE grant'[g] \in GrantRow
    <3>1. grant[g] \in GrantRow
      BY DEF XTypeOK
    <3>2. [grant[g] EXCEPT !.left = @ - 1] \in GrantRow
      <4>1. \A r \in GrantRow, n \in Int : [r EXCEPT !.left = n] \in GrantRow
        BY DEF GrantRow
      <4>2. grant[g].left - 1 \in Int
        BY <3>1 DEF GrantRow
      <4> QED
        BY <3>1, <4>1, <4>2
    <3>3. grant'[g] = grant[g] \/ grant'[g] = [grant[g] EXCEPT !.left = @ - 1]
      BY <1>2 DEF XTick
    <3> QED
      BY <3>1, <3>2, <3>3
  <2> QED
    BY <1>2, <2>1 DEF XTick, memory, files, XTypeOK
<1>3. ASSUME NEW t \in Tasks, NEW g \in Grants, IssueGrant(g, t) PROVE XTypeOK'
  <2>1. grant' = [grant EXCEPT ![g] = grant'[g]] /\ grant'[g] \in GrantRow
    BY <1>3 DEF IssueGrant, XTypeOK, TypeOK, GrantStates, GrantRow
  <2> QED
    BY <1>3, <2>1 DEF IssueGrant, memory, files, XTypeOK
<1>4. CASE WorkerSide
  BY <1>3, <1>4 DEF WorkerSide, WorkerJoins, WorkerBeats, WorkerAnswers, FailureLands, Stored, memory, files, XTypeOK
<1>5. CASE RuntimeStep \/ AbortCycle
  <2>1. ASSUME UNCHANGED <<memory, grant, files, step, last>>, space' \in {"AVAILABLE", "INTEGRITY_BLOCKED"},
               NEW at \in {"rest", "reconcile", "reclaim", "recover", "condemn", "settle", "route"},
               NEW todo \in SUBSET (Tasks \cup Grants), NEW g \in Grants \cup {NoGrant},
               NEW saw \in {"none", "pre", "post", "mixed"}, cycle' = Cycle(at, todo, g, saw)
        PROVE  XTypeOK'
    BY <2>1 DEF Cycle, memory, files, XTypeOK
  <2>2. CASE BeginCycle \/ Recovered \/ EndCycle \/ AbortCycle
    BY <2>1, <2>2 DEF BeginCycle, Recovered, EndCycle, AbortCycle, CycleTo, NoCycle, Stored, XTypeOK
  <2>3. CASE ReconcileStale \/ SelectExpired \/ Reconciled \/ \E t \in Tasks : Reclaim(t)
    <3>1. cycle.todo \subseteq Tasks \cup Grants
      BY DEF XTypeOK
    <3> QED
      BY <2>1, <2>3, <3>1 DEF ReconcileStale, SelectExpired, Reconciled, Reclaim, CycleTo, Stored,
         XTypeOK, Applying, memory, files
  <2>4. ASSUME NEW g \in Grants, RecoverRead(g) PROVE XTypeOK'
    <3>1. cycle.todo \ {g} \subseteq Tasks \cup Grants
      BY DEF XTypeOK
    <3> QED
      BY <2>1, <2>4, <3>1 DEF RecoverRead, CycleTo, Stored, XTypeOK
  <2>5. CASE RecoverBlock
    BY <2>5 DEF RecoverBlock, XTypeOK, memory, files
  <2>6. CASE RecoverWrite
    <3>1. cycle.g \in Grants /\ cycle.todo \subseteq Tasks \cup Grants
      BY <2>6 DEF RecoverWrite, CycleAt, OneTransaction, Applying, XTypeOK
    <3>2. /\ UNCHANGED <<memory, files, step, last>> /\ cycle' = Cycle("recover", cycle.todo, NoGrant, "none")
          /\ space' \in {space, "INTEGRITY_BLOCKED"}
          /\ \/ grant' = grant
             \/ \E s \in {"FAILED", "INTEGRITY_BLOCKED", "APPLIED"} : SettleGrant(cycle.g, s)
      BY <2>6 DEF RecoverWrite, CycleTo
    <3>3. grant' \in [Grants -> GrantRow]
      BY <3>1, <3>2, Settled DEF GrantStates, XTypeOK
    <3> QED
      BY <3>1, <3>2, <3>3 DEF XTypeOK, Cycle, memory, files
  <2>7. ASSUME NEW t \in Tasks, (\E d \in Lags : RouteNobody(t, d) \/ \E w \in Workers : Route(t, w, d)) PROVE XTypeOK'
    BY <2>7 DEF RouteNobody, Route, Stored, memory, files, XTypeOK
  <2> QED
    BY <1>5, <2>2, <2>3, <2>4, <2>5, <2>6, <2>7 DEF RuntimeStep
<1>6. CASE Crashes
  BY <1>6 DEF Crashes, Resting, At, NoCycle, Cycle, files, XTypeOK
<1>7. ASSUME NEW a \in Appliers, ApplyStep(a) PROVE XTypeOK'
  <2>0. /\ step[a].g \in Grants \cup {NoGrant} /\ step[a].i \in Nat
        /\ Active(a) => step[a].g \in Grants /\ Plan(step[a].g) \in Plans
    BY DEF XTypeOK, OneTransaction, Applying
  <2>1. ASSUME UNCHANGED <<memory, cycle, last>>, space' \in {space, "INTEGRITY_BLOCKED"},
               disk' \in [Files -> Contents], linked' \subseteq Files,
               grant' \in [Grants -> GrantRow],
               NEW at \in {"rest", "check", "ready", "write", "unlink", "final", "commit",
                           "undo", "condemn", "failed", "blocked"},
               NEW g \in Grants \cup {NoGrant}, NEW i \in Nat, Goto(a, at, g, i)
        PROVE  XTypeOK'
    BY <2>1 DEF Goto, At, memory, XTypeOK
  <2>2. CASE Check(a) \/ Authorize(a) \/ Verify(a) \/ Raise(a) \/ UndoRaises(a) \/ Condemn(a)
    <3>1. Active(a) => Len(Plan(step[a].g)) \in Nat
      BY <2>0
    <3> QED
      BY <2>0, <2>1, <2>2, <3>1 DEF Check, Authorize, Verify, Raise, UndoRaises, Condemn, AtStep,
         Active, files, XTypeOK
  <2>3. CASE Terminalize(a)
    <3>1. SettleGrant(step[a].g, IF AtStep(a, "failed") THEN "FAILED" ELSE "INTEGRITY_BLOCKED")
          /\ step[a].g \in Grants
      BY <2>0, <2>3 DEF Terminalize, Active
    <3> QED
      BY <2>1, <2>3, <3>1, Settled DEF Terminalize, GrantStates, Goto, Resting, files, XTypeOK
  <2>4. ASSUME NEW d \in Lags, Commit(a, d) PROVE XTypeOK'
    <3>1. SetGrant(step[a].g, "APPLIED") /\ step[a].g \in Grants
      BY <2>0, <2>4 DEF Commit, AtStep, Active
    <3> QED
      BY <2>1, <2>4, <3>1, Settled DEF Commit, GrantStates, Goto, Resting, files, XTypeOK
  <2>5. ASSUME NEW g \in Grants, NEW d \in Lags, Expire(a, g, d) PROVE XTypeOK'
    BY <2>5, Settled DEF Expire, GrantStates, memory, files, XTypeOK
  <2>6. ASSUME NEW g \in Grants, NEW p \in Plans, NEW d \in Lags, Consume(a, g, p, d) PROVE XTypeOK'
    <3>1. /\ grant' = [grant EXCEPT ![g] = [grant[g] EXCEPT !.st = "APPLYING", !.plan = p]]
          /\ grant[g] \in GrantRow
      BY <2>6 DEF Consume, XTypeOK
    <3>2. [grant[g] EXCEPT !.st = "APPLYING", !.plan = p] \in GrantRow
      BY <3>1 DEF GrantRow, GrantStates
    <3> QED
      BY <2>6, <3>1, <3>2 DEF Consume, Goto, At, memory, files, XTypeOK
  <2>7. CASE Write(a) \/ Unlink(a) \/ Undo(a)
    <3>1. Active(a) /\ step[a].g \in Grants /\ Plan(step[a].g) \in Plans
      BY <2>0, <2>7 DEF Write, Unlink, Undo, AtStep, Active
    <3>2. UNCHANGED <<memory, grant, space, cycle, last>>
      BY <2>7 DEF Write, Unlink, Undo
    <3>3. /\ AtStep(a, "write") \/ AtStep(a, "unlink") => step[a].i \in 1..Len(Plan(step[a].g))
          /\ AtStep(a, "undo") => step[a].i \in 0..Len(Plan(step[a].g))
      BY <3>1 DEF StepsFollowFiles, Reached, AtStep, OneTransaction
    <3>4. step[a].i \in 1..Len(Plan(step[a].g)) =>
              Op(a).file \in Files /\ Op(a).pre \in Contents /\ Op(a).post \in Contents
      BY <3>1, OperationOf DEF Op
    <3>5. CASE Write(a)
      BY <2>0, <2>1, <3>1, <3>2, <3>3, <3>4, <3>5 DEF Write, NextOp, AtStep, XTypeOK
    <3>6. CASE Unlink(a)
      BY <2>0, <2>1, <3>1, <3>2, <3>3, <3>4, <3>6 DEF Unlink, NextOp, AtStep, XTypeOK
    <3>7. CASE Undo(a)
      <4>1. /\ disk' \in [Files -> Contents] /\ linked' \subseteq Files
        <5>1. step[a].i > 0 => step[a].i \in 1..Len(Plan(step[a].g))
          BY <2>0, <3>3, <3>7 DEF Undo
        <5>2. step[a].i > 0 => Op(a).pre \in Contents
          BY <3>4, <5>1
        <5> QED
          BY <2>0, <5>2, <3>7 DEF Undo, XTypeOK
      <4>2. step[a].i > 0 => step[a].i - 1 \in Nat
        BY <2>0
      <4> QED
        BY <2>1, <3>1, <3>2, <3>7, <4>1, <4>2 DEF Undo, XTypeOK
    <3> QED
      BY <2>7, <3>5, <3>6, <3>7
  <2> QED
    BY <1>7, <2>2, <2>3, <2>4, <2>5, <2>6, <2>7 DEF ApplyStep, Progress
<1> QED
  BY <1>1, <1>2, <1>4, <1>5, <1>6, <1>7 DEF XNext

-----------------------------------------------------------------------------
(* The files of a plan. *)

LEMMA DoneOrNot ==
  ASSUME NEW p \in Plans
  PROVE  /\ Len(p) \in Nat /\ Len(p) > 0
         /\ Done(p, 0) <=> ShowsPre(p)
         /\ Done(p, Len(p)) <=> ShowsPost(p)
         /\ Restored(p, 0) <=> ShowsPre(p)
<1>1. Len(p) \in Nat /\ Len(p) > 0
  BY ExecutionConstants
<1> QED
  BY <1>1 DEF Done, Restored, ShowsPre, ShowsPost

\* Each file of a plan is named by one operation, so that an operation leaves the
\* files of the others alone.
LEMMA OneFileEach ==
  ASSUME NEW p \in Plans, NEW i \in 1..Len(p), NEW j \in 1..Len(p)
  PROVE  p[j].file \in Files /\ (p[j].file = p[i].file => j = i)
  BY OperationOf, ExecutionConstants

LEMMA WrittenIsDone ==
  ASSUME XTypeOK, NEW p \in Plans, NEW i \in 1..Len(p), Done(p, i - 1),
         disk' = [disk EXCEPT ![p[i].file] = p[i].post]
  PROVE  Done(p, i)'
<1>1. ASSUME NEW j \in 1..Len(p)
      PROVE  disk'[p[j].file] = IF j <= i THEN p[j].post ELSE p[j].pre
  <2>1. CASE j = i
    BY <2>1, OneFileEach, DoneOrNot DEF XTypeOK
  <2>2. CASE j # i
    <3>1. disk'[p[j].file] = disk[p[j].file]
      BY <2>2, OneFileEach DEF XTypeOK
    <3>2. j <= i <=> j <= i - 1
      BY <2>2, DoneOrNot
    <3> QED
      BY <3>1, <3>2 DEF Done
  <2> QED
    BY <2>1, <2>2
<1> QED
  BY <1>1 DEF Done

LEMMA UndoneIsRestored ==
  ASSUME XTypeOK, NEW p \in Plans, NEW i \in 1..Len(p), Restored(p, i),
         disk' = [disk EXCEPT ![p[i].file] = p[i].pre]
  PROVE  Restored(p, i - 1)'
<1>1. ASSUME NEW j \in 1..Len(p)
      PROVE  /\ disk'[p[j].file] \in {p[j].pre, p[j].post}
             /\ j > i - 1 => disk'[p[j].file] = p[j].pre
  <2>1. CASE j = i
    BY <2>1, OneFileEach DEF XTypeOK
  <2>2. CASE j # i
    <3>1. disk'[p[j].file] = disk[p[j].file]
      BY <2>2, OneFileEach DEF XTypeOK
    <3>2. j > i - 1 => j > i
      BY <2>2, DoneOrNot
    <3> QED
      BY <3>1, <3>2 DEF Restored
  <2> QED
    BY <2>1, <2>2
<1> QED
  BY <1>1 DEF Restored

-----------------------------------------------------------------------------
(* The steps, by what they may touch. *)

\* What an open transaction says, for the grant that is under way.
LEMMA Underway ==
  ASSUME LedgerInv, last \in Applying
  PROVE  /\ last \in Grants /\ last # NoGrant /\ grant[last].st = "APPLYING"
         /\ Plan(last) \in Plans /\ Len(Plan(last)) \in Nat /\ Len(Plan(last)) > 0
         /\ grant[last].task \in Tasks /\ Restored(Plan(last), Len(Plan(last)))
<1>1. last \in Grants /\ last # NoGrant /\ grant[last].st = "APPLYING"
  BY ExecutionConstants DEF Applying
<1>2. Plan(last) \in Plans /\ Len(Plan(last)) \in Nat /\ Len(Plan(last)) > 0
  BY <1>1, DoneOrNot DEF LedgerInv, WorkInv, OneTransaction
<1> QED
  BY <1>1, <1>2 DEF LedgerInv, WorkInv, OneTransaction, LedgerMatchesDisk, Restored

LEMMA ActiveIsUnderway ==
  ASSUME LedgerInv, NEW a \in Appliers, Active(a)
  PROVE  step[a].g = last /\ last \in Applying /\ cycle = NoCycle /\ Reached(a, Plan(last))
  BY DEF LedgerInv, WorkInv, OneTransaction, StepsFollowFiles

LEMMA NobodyActive ==
  ASSUME LedgerInv, cycle # NoCycle
  PROVE  \A a \in Appliers : ~Active(a)
  BY DEF LedgerInv, WorkInv, OneTransaction

\* Workers, the clock and routing: grants are issued, expire or age.
LEMMA OutsideSteps ==
  ASSUME LedgerInv, UNCHANGED <<space, files, step, cycle, last>>,
         \A g \in Grants :
           \/ grant'[g].st = grant[g].st /\ grant'[g].task = grant[g].task /\ Plan(g)' = Plan(g)
           \/ /\ grant[g].st \in {"NONE", "ISSUED"} /\ grant'[g].st \in {"ISSUED", "EXPIRED"}
              /\ grant'[g].task \in Tasks
  PROVE  WorkInv'
<1> USE DEF LedgerInv, WorkInv, files
<1>1. last # NoGrant => last \in Grants /\ grant'[last].st = grant[last].st /\ Plan(last)' = Plan(last)
  BY DEF OneTransaction, XTypeOK
<1>2. Applying' = Applying
  BY DEF Applying
<1>3. OneTransaction'
  BY <1>1, <1>2 DEF OneTransaction, Active, Applying
<1>4. ASSUME last = NoGrant PROVE \A a \in Appliers : ~Active(a)
  BY <1>4, ExecutionConstants DEF OneTransaction, Applying
<1>5. StepsFollowFiles'
  BY <1>1, <1>4 DEF StepsFollowFiles, Active, Reached, Done, Restored
<1>6. CycleFollowsFiles'
  <2>1. cycle.at = "settle" => last # NoGrant
    BY ExecutionConstants DEF OneTransaction, Applying
  <2> QED
    BY <1>1, <2>1 DEF CycleFollowsFiles, ShowsPre, ShowsPost, Readable
<1>7. LedgerMatchesDisk'
  BY <1>1 DEF LedgerMatchesDisk, ShowsPost, ShowsPre
<1> QED
  BY <1>3, <1>5, <1>6, <1>7

\* The applier at work goes on with the grant it consumed.
LEMMA ApplierMoves ==
  ASSUME LedgerInv, UNCHANGED <<grant, cycle, last>>, NEW a \in Appliers, Active(a),
         NEW at, at # "rest", NEW i, Goto(a, at, step[a].g, i),
         NEW p, p = Plan(last), Reached(a, p)', Restored(p, Len(p))'
  PROVE  WorkInv'
<1>0. Plan(last)' = p
  BY DEF Plan
<1> USE DEF LedgerInv, WorkInv
<1>1. /\ step[a].g = last /\ last \in Applying /\ cycle = NoCycle
      /\ last # NoGrant /\ grant[last].st = "APPLYING"
  BY ActiveIsUnderway, Underway
<1>2. /\ \A b \in Appliers \ {a} : step'[b] = step[b] /\ ~Active(b)
      /\ step'[a] = At(at, last, i)
  BY <1>1 DEF OneTransaction, Goto, XTypeOK
<1>3. OneTransaction'
  BY <1>1, <1>2 DEF OneTransaction, Active, At, Applying, Plan
<1>4. StepsFollowFiles'
  BY <1>0, <1>2 DEF StepsFollowFiles, Active
<1>5. CycleFollowsFiles'
  BY <1>1 DEF CycleFollowsFiles, NoCycle, Cycle
<1>6. LedgerMatchesDisk'
  BY <1>0, <1>1 DEF LedgerMatchesDisk, Restored
<1> QED
  BY <1>3, <1>4, <1>5, <1>6

\* The transaction is closed, and nobody is at work any more.
LEMMA Closed ==
  ASSUME LedgerInv, last \in Applying, UNCHANGED <<space, disk, last>>,
         NEW s \in {"APPLIED", "FAILED", "INTEGRITY_BLOCKED"}, SetGrant(last, s),
         \A a \in Appliers : step'[a] = Resting,
         cycle'.at \notin {"condemn", "settle"}, cycle'.at = "rest" => cycle' = NoCycle,
         s = "APPLIED" => ShowsPost(Plan(last)),
         s = "FAILED" => ShowsPre(Plan(last)),
         s = "INTEGRITY_BLOCKED" => space = "INTEGRITY_BLOCKED"
  PROVE  WorkInv'
<1> USE DEF LedgerInv, WorkInv
<1>1. last # NoGrant /\ last \in Grants /\ Plan(last) \in Plans /\ grant[last].task \in Tasks
  BY Underway
<1>2. /\ \A h \in Grants : Plan(h)' = Plan(h) /\ grant'[h].task = grant[h].task
                           /\ (h # last => grant'[h] = grant[h])
      /\ grant'[last].st = s
  BY <1>1, Settled DEF GrantStates
<1>3. \A a \in Appliers : ~Active(a)'
  BY DEF Active, Resting, At
<1>4. OneTransaction'
  BY <1>1, <1>2, <1>3 DEF OneTransaction
<1>5. StepsFollowFiles' /\ CycleFollowsFiles'
  BY <1>3 DEF StepsFollowFiles, CycleFollowsFiles
<1>6. LedgerMatchesDisk'
  BY <1>1, <1>2 DEF LedgerMatchesDisk, ShowsPre, ShowsPost
<1> QED
  BY <1>4, <1>5, <1>6

\* The runtime cycle, with every applier at rest; or the end of the process.
LEMMA CycleMoves ==
  ASSUME LedgerInv, UNCHANGED <<grant, disk, linked, last>>, space' \in {space, "INTEGRITY_BLOCKED"},
         \A a \in Appliers : step'[a] = Resting,
         cycle'.at = "rest" => cycle' = NoCycle,
         cycle'.at \in {"condemn", "settle"} => cycle'.g = last /\ last \in Applying,
         CycleFollowsFiles'
  PROVE  WorkInv'
<1> USE DEF LedgerInv, WorkInv
<1>1. \A a \in Appliers : ~Active(a)'
  BY DEF Active, Resting, At
<1>2. OneTransaction'
  BY <1>1 DEF OneTransaction, Applying, Plan
<1>3. StepsFollowFiles'
  BY <1>1 DEF StepsFollowFiles
<1>4. LedgerMatchesDisk'
  BY DEF LedgerMatchesDisk, ShowsPre, ShowsPost, Plan
<1> QED
  BY <1>2, <1>3, <1>4

-----------------------------------------------------------------------------
(* The ledger and the files. *)

LEMMA ApplyStepLedger ==
  ASSUME LedgerInv, NEW a \in Appliers, ApplyStep(a)
  PROVE  WorkInv'
<1> PICK p, n : p = Plan(last) /\ n = step[a].i
  OBVIOUS
<1>0. Active(a) => /\ step[a].g = last /\ last \in Applying /\ cycle = NoCycle /\ Reached(a, p)
                   /\ p \in Plans /\ Len(p) \in Nat /\ Len(p) > 0 /\ Restored(p, Len(p))
  BY ActiveIsUnderway, Underway
<1>1. CASE Check(a)
  <2>1. Active(a) /\ Goto(a, "ready", step[a].g, 1) /\ Done(p, 0)
    BY <1>0, <1>1, DoneOrNot DEF Check, AtStep, Active
  <2>2. Reached(a, p)' /\ Restored(p, Len(p))'
    BY <1>0, <1>1, <2>1 DEF Check, files, Goto, At, Reached, Done, Restored, Plan, LedgerInv, XTypeOK
  <2> QED
    BY <1>1, <2>1, <2>2, ApplierMoves DEF Check
<1>2. CASE Authorize(a)
  <2>1. /\ Active(a) /\ n \in 1..Len(p) /\ Done(p, n - 1)
        /\ Goto(a, "write", step[a].g, n)
    BY <1>0, <1>2 DEF Authorize, AtStep, Active, Reached
  <2>2. Reached(a, p)' /\ Restored(p, Len(p))'
    BY <1>0, <1>2, <2>1 DEF Authorize, files, Goto, At, Reached, Done, Restored, Plan, LedgerInv, XTypeOK
  <2> QED
    BY <1>2, <2>1, <2>2, ApplierMoves DEF Authorize
<1>3. CASE Write(a)
  <2>1. /\ Active(a) /\ n \in 1..Len(p) /\ Done(p, n - 1)
        /\ Op(a) = p[n] /\ UNCHANGED <<grant, space, cycle, last>>
        /\ disk' = [disk EXCEPT ![p[n].file] = p[n].post]
    BY <1>0, <1>3 DEF Write, AtStep, Active, Reached, Op
  <2>2. Done(p, n)' /\ Plan(last)' = p
    BY <1>0, <2>1, WrittenIsDone DEF LedgerInv, Plan
  <2>3. Restored(p, Len(p))'
    BY <1>0, <2>1, <2>2 DEF Done, Restored
  <2>4. PICK at, i : /\ Goto(a, at, step[a].g, i)
                     /\ \/ at = "unlink" /\ i = n
                        \/ at = "ready" /\ i = n + 1 /\ n < Len(p)
                        \/ at = "final" /\ n = Len(p)
    BY <1>0, <1>3, <2>1 DEF Write, NextOp
  <2>5. Reached(a, p)'
    BY <1>0, <2>1, <2>2, <2>4 DEF Goto, At, Reached, LedgerInv, XTypeOK
  <2> QED
    BY <2>1, <2>3, <2>4, <2>5, ApplierMoves
<1>4. CASE Unlink(a)
  <2>1. /\ Active(a) /\ n \in 1..Len(p) /\ Done(p, n)
        /\ UNCHANGED <<grant, space, disk, cycle, last>>
    BY <1>0, <1>4 DEF Unlink, AtStep, Active, Reached
  <2>2. Done(p, n)' /\ Plan(last)' = p /\ Restored(p, Len(p))'
    BY <1>0, <2>1 DEF Done, Restored, Plan
  <2>3. PICK at, i : /\ Goto(a, at, step[a].g, i)
                     /\ \/ at = "ready" /\ i = n + 1 /\ n < Len(p)
                        \/ at = "final" /\ n = Len(p)
    BY <1>0, <1>4, <2>1 DEF Unlink, NextOp
  <2>4. Reached(a, p)'
    BY <1>0, <2>1, <2>2, <2>3 DEF Goto, At, Reached, LedgerInv, XTypeOK
  <2> QED
    BY <2>1, <2>2, <2>3, <2>4, ApplierMoves
<1>5. CASE Verify(a)
  <2>1. Active(a) /\ Done(p, Len(p)) /\ Goto(a, "commit", step[a].g, 0)
    BY <1>0, <1>5 DEF Verify, AtStep, Active, Reached
  <2>2. Reached(a, p)' /\ Restored(p, Len(p))'
    BY <1>0, <1>5, <2>1 DEF Verify, files, Goto, At, Reached, Done, Restored, Plan, LedgerInv, XTypeOK
  <2> QED
    BY <1>5, <2>1, <2>2, ApplierMoves DEF Verify
<1>6. ASSUME NEW d \in Lags, Commit(a, d) PROVE WorkInv'
  <2>1. Active(a) /\ ShowsPost(p) /\ SetGrant(last, "APPLIED")
    BY <1>0, <1>6, DoneOrNot DEF Commit, AtStep, Active, Reached
  <2>2. \A b \in Appliers : step'[b] = Resting
    BY <1>6, <2>1 DEF Commit, LedgerInv, WorkInv, OneTransaction, XTypeOK
  <2> QED
    BY <1>0, <1>6, <2>1, <2>2, Closed DEF Commit, files, NoCycle, Cycle
<1>7. CASE Raise(a)
  <2>1. /\ Active(a) /\ UNCHANGED <<grant, space, disk, cycle, last>> /\ Plan(last)' = p
        /\ \/ Done(p, 0) /\ Goto(a, "failed", step[a].g, 0)
           \/ Goto(a, "undo", step[a].g, Len(p))
    BY <1>0, <1>7 DEF Raise, AtStep, Active, Reached, files, Plan
  <2>2. Restored(p, Len(p))' /\ (Done(p, 0) => Done(p, 0)')
    BY <1>0, <2>1 DEF Done, Restored
  <2>3. CASE Done(p, 0) /\ Goto(a, "failed", step[a].g, 0)
    <3>1. Reached(a, p)'
      BY <2>1, <2>2, <2>3 DEF Goto, At, Reached, LedgerInv, XTypeOK
    <3> QED
      BY <2>1, <2>2, <2>3, <3>1, ApplierMoves
  <2>4. CASE Goto(a, "undo", step[a].g, Len(p))
    <3>1. Reached(a, p)'
      BY <1>0, <2>1, <2>2, <2>4 DEF Goto, At, Reached, LedgerInv, XTypeOK
    <3> QED
      BY <2>1, <2>2, <2>4, <3>1, ApplierMoves
  <2> QED
    BY <2>1, <2>3, <2>4
<1>8. CASE Undo(a)
  <2>1. /\ Active(a) /\ n \in 0..Len(p) /\ Restored(p, n)
        /\ UNCHANGED <<grant, space, cycle, last>> /\ Plan(last)' = p
    BY <1>0, <1>8 DEF Undo, AtStep, Active, Reached, Plan
  <2>2. CASE n > 0
    <3>1. /\ n \in 1..Len(p) /\ Goto(a, "undo", step[a].g, n - 1)
          /\ disk' = [disk EXCEPT ![p[n].file] = p[n].pre]
      BY <1>0, <1>8, <2>1, <2>2 DEF Undo, Op
    <3>2. Restored(p, n - 1)'
      BY <1>0, <2>1, <3>1, UndoneIsRestored DEF LedgerInv
    <3>3. Restored(p, Len(p))'
      BY <1>0, <2>1, <3>2 DEF Restored
    <3>4. Reached(a, p)'
      BY <1>0, <2>1, <3>1, <3>2 DEF Goto, At, Reached, LedgerInv, XTypeOK
    <3> QED
      BY <2>1, <3>1, <3>3, <3>4, ApplierMoves
  <2>3. CASE ~(n > 0)
    <3>1. n = 0 /\ ShowsPre(p) /\ Done(p, 0)
      BY <1>0, <2>1, <2>3, DoneOrNot
    <3>2. disk' = disk /\ Goto(a, "failed", step[a].g, 0)
      BY <1>0, <1>8, <2>1, <2>3, <3>1 DEF Undo, Goto
    <3>3. Done(p, 0)' /\ Restored(p, Len(p))'
      BY <1>0, <2>1, <3>1, <3>2 DEF Done, Restored
    <3>4. Reached(a, p)'
      BY <2>1, <3>2, <3>3 DEF Goto, At, Reached, LedgerInv, XTypeOK
    <3> QED
      BY <2>1, <3>2, <3>3, <3>4, ApplierMoves
  <2> QED
    BY <2>2, <2>3
<1>9. CASE UndoRaises(a) \/ Condemn(a)
  <2>1. PICK at : /\ Active(a) /\ Goto(a, at, step[a].g, 0)
                  /\ UNCHANGED <<grant, disk, cycle, last>> /\ Plan(last)' = p
                  /\ at = "condemn" \/ (at = "blocked" /\ space' = "INTEGRITY_BLOCKED")
    BY <1>9 DEF UndoRaises, Condemn, AtStep, Active, files, Plan
  <2>2. Restored(p, Len(p))' /\ Reached(a, p)'
    BY <1>0, <2>1 DEF Restored, Goto, At, Reached, LedgerInv, XTypeOK
  <2> QED
    BY <2>1, <2>2, ApplierMoves
<1>10. CASE Terminalize(a)
  <2>1. PICK s \in {"FAILED", "INTEGRITY_BLOCKED"} :
           /\ Active(a) /\ SettleGrant(step[a].g, s)
           /\ s = "FAILED" => AtStep(a, "failed")
           /\ s = "INTEGRITY_BLOCKED" => AtStep(a, "blocked")
    BY <1>10 DEF Terminalize, AtStep, Active
  <2>2. /\ SetGrant(last, s)
        /\ s = "FAILED" => ShowsPre(p)
        /\ s = "INTEGRITY_BLOCKED" => space = "INTEGRITY_BLOCKED"
    BY <1>0, <2>1, DoneOrNot DEF SettleGrant, SetGrant, Applying, AtStep, Reached
  <2>3. \A b \in Appliers : step'[b] = Resting
    BY <1>10, <2>1 DEF Terminalize, LedgerInv, WorkInv, OneTransaction, XTypeOK
  <2> QED
    BY <1>0, <1>10, <2>1, <2>2, <2>3, Closed DEF Terminalize, files, NoCycle, Cycle
<1>11. ASSUME NEW g \in Grants, NEW d \in Lags, Expire(a, g, d) PROVE WorkInv'
  <2>1. \A h \in Grants : /\ Plan(h)' = Plan(h) /\ grant'[h].task = grant[h].task
                          /\ h # g => grant'[h] = grant[h]
    BY <1>11, Settled DEF Expire, LedgerInv, GrantStates
  <2>2. grant[g].st = "ISSUED" /\ grant'[g].st = "EXPIRED" /\ grant[g].task \in Tasks
    BY <1>11, Settled DEF Expire, LedgerInv, WorkInv, OneTransaction, GrantStates
  <2> QED
    BY <1>11, <2>1, <2>2, OutsideSteps DEF Expire
<1>12. ASSUME NEW g \in Grants, NEW q \in Plans, NEW d \in Lags, Consume(a, g, q, d) PROVE WorkInv'
  <2> USE DEF LedgerInv, WorkInv
  <2>1. /\ Applying = {} /\ cycle = NoCycle /\ UNCHANGED <<space, disk, linked, cycle>> /\ last' = g
        /\ grant[g].st = "ISSUED" /\ grant[g].task \in Tasks /\ ShowsPre(q) /\ ~Active(a)
        /\ g # NoGrant
    BY <1>12, ExecutionConstants DEF Consume, MayApply, AtStep, Active, files, OneTransaction
  <2>2. /\ grant'[g].st = "APPLYING" /\ Plan(g)' = q /\ grant'[g].task = grant[g].task
        /\ \A h \in Grants \ {g} : grant'[h] = grant[h]
    BY <1>12 DEF Consume, XTypeOK, GrantRow, Plan
  <2>3. /\ step'[a] = At("check", g, 0)
        /\ \A b \in Appliers \ {a} : step'[b] = step[b] /\ ~Active(b)
    BY <1>12, <2>1 DEF Consume, Goto, XTypeOK, OneTransaction
  <2>4. OneTransaction'
    BY <2>1, <2>2, <2>3 DEF OneTransaction, Applying, Active, At, NoCycle, Cycle
  <2>5. ShowsPre(q)' /\ Done(q, 0)' /\ Restored(q, 0)'
    BY <2>1, DoneOrNot DEF ShowsPre, Done, Restored
  <2>6. StepsFollowFiles'
    BY <2>1, <2>2, <2>3, <2>5 DEF StepsFollowFiles, Reached, Active, At
  <2>7. CycleFollowsFiles'
    BY <2>1 DEF CycleFollowsFiles, NoCycle, Cycle
  <2>8. LedgerMatchesDisk'
    BY <2>1, <2>2, <2>5 DEF LedgerMatchesDisk, Restored
  <2> QED
    BY <2>4, <2>6, <2>7, <2>8
<1> QED
  BY <1>1, <1>2, <1>3, <1>4, <1>5, <1>6, <1>7, <1>8, <1>9, <1>10, <1>11, <1>12 DEF ApplyStep, Progress

LEMMA OutsideLedger ==
  ASSUME LedgerInv, XTick \/ WorkerSide
  PROVE  WorkInv'
<1>1. CASE XTick
  <2>1. ASSUME NEW g \in Grants
        PROVE  grant'[g].st = grant[g].st /\ grant'[g].task = grant[g].task /\ Plan(g)' = Plan(g)
    <3>1. \A r \in GrantRow, n \in Int :
            LET s == [r EXCEPT !.left = n] IN s.st = r.st /\ s.task = r.task /\ s.plan = r.plan
      BY DEF GrantRow
    <3>2. grant[g] \in GrantRow /\ grant[g].left - 1 \in Int
      BY DEF LedgerInv, XTypeOK, GrantRow
    <3>3. grant'[g] = grant[g] \/ grant'[g] = [grant[g] EXCEPT !.left = grant[g].left - 1]
      BY <1>1 DEF XTick
    <3> QED
      BY <3>1, <3>2, <3>3 DEF Plan
  <2> QED
    BY <1>1, <2>1, OutsideSteps DEF XTick
<1>2. ASSUME NEW g \in Grants, NEW t \in Tasks, IssueGrant(g, t) PROVE WorkInv'
  <2>1. /\ grant[g].st = "NONE" /\ grant'[g].st = "ISSUED" /\ grant'[g].task = t
        /\ \A h \in Grants \ {g} : grant'[h] = grant[h]
    BY <1>2 DEF IssueGrant, LedgerInv, XTypeOK
  <2> QED
    BY <1>2, <2>1, OutsideSteps DEF IssueGrant, Plan
<1>3. CASE UNCHANGED <<grant, space, files, step, cycle, last>>
  BY <1>3, OutsideSteps DEF Plan
<1> QED
  BY <1>1, <1>2, <1>3 DEF WorkerSide, WorkerJoins, WorkerBeats, WorkerAnswers, FailureLands, Stored

LEMMA RuntimeLedger ==
  ASSUME LedgerInv, RuntimeStep \/ AbortCycle \/ Crashes
  PROVE  WorkInv'
<1> USE DEF files
<1>0. cycle # NoCycle => \A a \in Appliers : step[a] = Resting
  BY DEF LedgerInv, WorkInv, OneTransaction
<1>1. CASE BeginCycle
  BY <1>1, CycleMoves DEF BeginCycle, CycleTo, Cycle, Stored, CycleFollowsFiles
<1>2. CASE ReconcileStale \/ SelectExpired \/ Reconciled \/ \E t \in Tasks : Reclaim(t)
  <2>1. CASE ReconcileStale
    BY <2>1, OutsideSteps DEF ReconcileStale, Stored, Plan
  <2>2. CASE SelectExpired \/ Reconciled \/ \E t \in Tasks : Reclaim(t)
    BY <1>0, <2>2, CycleMoves DEF SelectExpired, Reconciled, Reclaim, CycleAt, CycleTo, NoCycle,
       Cycle, Stored, CycleFollowsFiles
  <2> QED
    BY <1>2, <2>1, <2>2
<1>3. ASSUME NEW g \in Grants, RecoverRead(g) PROVE WorkInv'
  <2>0. cycle # NoCycle /\ UNCHANGED <<grant, space, disk, linked, step, last>>
    BY <1>3 DEF RecoverRead, CycleAt, NoCycle, Cycle, Stored
  <2>1. CASE CycleTo("recover", cycle.todo \ {g})
    BY <1>0, <2>0, <2>1, CycleMoves DEF CycleTo, Cycle, CycleFollowsFiles
  <2>2. CASE ~CycleTo("recover", cycle.todo \ {g})
    <3>1. g = last /\ last \in Applying /\ space = "AVAILABLE" /\ Readable(Plan(last))
      BY <1>3, <2>2 DEF RecoverRead, LedgerInv, WorkInv, OneTransaction, Applying
    <3>2. \E todo : \/ ShowsPre(Plan(last)) /\ cycle' = Cycle("settle", todo, last, "pre")
                    \/ ShowsPost(Plan(last)) /\ cycle' = Cycle("settle", todo, last, "post")
                    \/ cycle' = Cycle("condemn", todo, last, "mixed")
      BY <1>3, <2>2, <3>1 DEF RecoverRead
    <3>3. CycleFollowsFiles'
      BY <2>0, <3>1, <3>2 DEF Cycle, CycleFollowsFiles, ShowsPre, ShowsPost, Readable, Plan
    <3> QED
      BY <1>0, <2>0, <3>1, <3>2, <3>3, CycleMoves DEF Cycle
  <2> QED
    BY <2>1, <2>2
<1>4. CASE RecoverBlock
  <2>1. /\ cycle # NoCycle /\ cycle.g = last /\ last \in Applying /\ cycle.saw = "mixed"
        /\ UNCHANGED <<grant, disk, linked, step, last>> /\ space' = "INTEGRITY_BLOCKED"
        /\ cycle' = [cycle EXCEPT !.at = "settle"]
    BY <1>4 DEF RecoverBlock, CycleAt, NoCycle, Cycle, LedgerInv, WorkInv, OneTransaction, CycleFollowsFiles
  <2>2. cycle'.at = "settle" /\ cycle'.g = last /\ cycle'.saw = "mixed"
    BY <2>1 DEF LedgerInv, XTypeOK
  <2>3. CycleFollowsFiles'
    BY <2>1, <2>2 DEF CycleFollowsFiles
  <2> QED
    BY <1>0, <2>1, <2>2, <2>3, CycleMoves
<1>5. CASE RecoverWrite
  <2>1. /\ cycle # NoCycle /\ cycle.g = last /\ last \in Applying
        /\ UNCHANGED <<disk, linked, step, last>>
        /\ cycle' = Cycle("recover", cycle.todo, NoGrant, "none")
    BY <1>5 DEF RecoverWrite, CycleAt, CycleTo, NoCycle, Cycle, LedgerInv, WorkInv, OneTransaction
  <2>2. CASE space' = "INTEGRITY_BLOCKED" /\ UNCHANGED grant
    BY <1>0, <2>1, <2>2, CycleMoves DEF Cycle, CycleFollowsFiles
  <2>3. ASSUME NEW s \in {"APPLIED", "FAILED", "INTEGRITY_BLOCKED"}, SettleGrant(cycle.g, s),
               space' = space,
               s = "APPLIED" => cycle.saw = "post", s = "FAILED" => cycle.saw = "pre",
               s = "INTEGRITY_BLOCKED" => cycle.saw \notin {"pre", "post"}
        PROVE  WorkInv'
    <3>1. SetGrant(last, s)
      BY <2>1, <2>3 DEF SettleGrant, SetGrant, Applying
    <3>2. /\ s = "APPLIED" => ShowsPost(Plan(last))
          /\ s = "FAILED" => ShowsPre(Plan(last))
          /\ s = "INTEGRITY_BLOCKED" => space = "INTEGRITY_BLOCKED"
      BY <1>5, <2>3 DEF RecoverWrite, CycleAt, LedgerInv, WorkInv, CycleFollowsFiles
    <3> QED
      BY <1>0, <2>1, <2>3, <3>1, <3>2, Closed DEF Cycle
  <2> QED
    BY <1>5, <2>2, <2>3 DEF RecoverWrite
<1>6. CASE Recovered \/ EndCycle \/ AbortCycle
  BY <1>0, <1>6, CycleMoves DEF Recovered, EndCycle, AbortCycle, CycleAt, CycleTo, NoCycle, Cycle,
     Stored, CycleFollowsFiles
<1>7. ASSUME NEW t \in Tasks, (\E d \in Lags : RouteNobody(t, d) \/ \E w \in Workers : Route(t, w, d)) PROVE WorkInv'
  BY <1>7, OutsideSteps DEF RouteNobody, Route, Stored, Plan
<1>8. CASE Crashes
  BY <1>8, CycleMoves DEF Crashes, NoCycle, Cycle, CycleFollowsFiles
<1> QED
  BY <1>1, <1>2, <1>3, <1>4, <1>5, <1>6, <1>7, <1>8 DEF RuntimeStep

LEMMA LedgerInvHolds == XSpec => []LedgerInv
<1>1. XInit => LedgerInv
  <2> SUFFICES ASSUME XInit PROVE LedgerInv
    OBVIOUS
  <2> USE StoreConstants, ExecutionConstants DEF XInit
  <2>1. TypeOK
    BY DEF Init, TypeOK, States, Verdicts, Ops, Idle, Call
  <2>2. XTypeOK
    BY DEF XTypeOK, GrantRow, GrantStates, Unissued, Resting, At, NoCycle, Cycle
  <2>3. WorkInv
    BY DEF WorkInv, OneTransaction, StepsFollowFiles, CycleFollowsFiles, LedgerMatchesDisk,
           Unissued, Active, Resting, At, NoCycle, Cycle
  <2> QED
    BY <2>1, <2>2, <2>3 DEF LedgerInv
<1>2. LedgerInv /\ [XNext]_xvars => LedgerInv'
  <2> SUFFICES ASSUME LedgerInv, [XNext]_xvars PROVE LedgerInv'
    OBVIOUS
  <2>1. TypeOK'
    BY StoreSteps, StoreTypesKept DEF LedgerInv
  <2>2. XTypeOK'
    BY XTypesKept
  <2>3. WorkInv'
    <3>1. CASE UNCHANGED xvars
      BY <3>1, OutsideSteps DEF xvars, files, Plan
    <3> QED
      BY <3>1, ApplyStepLedger, OutsideLedger, RuntimeLedger DEF XNext
  <2> QED
    BY <2>1, <2>2, <2>3 DEF LedgerInv
<1> QED
  BY <1>1, <1>2, PTL DEF XSpec

\* The rows of the grant tables, the workspace and what a call or the cycle carries
\* keep the shapes that the handlers rely on, wherever the process dies.
THEOREM ExecutionTypes == XSpec => [](TypeOK /\ XTypeOK)
<1>1. LedgerInv => TypeOK /\ XTypeOK
  BY DEF LedgerInv
<1> QED
  BY <1>1, LedgerInvHolds, PTL

\* The ledger says of the plan consumed last what the files show, for any plans,
\* files and number of appliers: apply, its rollback and recover settle a grant as
\* applied or failed only over all new or all old files, and block the workspace else.
THEOREM LedgerIsTrue == XSpec => []LedgerMatchesDisk
<1>1. LedgerInv => LedgerMatchesDisk
  BY DEF LedgerInv, WorkInv
<1> QED
  BY <1>1, LedgerInvHolds, PTL

-----------------------------------------------------------------------------
(* Evidence. *)

SomeoneActive == \E a \in Appliers : Active(a)

\* What no step does, but the one that consumes a grant: unblock the workspace,
\* open a transaction, or start an applier.  And nobody but an applier at work
\* makes a file readable again.
Frame ==
  /\ space' = "AVAILABLE" => space = "AVAILABLE"
  /\ linked \subseteq linked' \/ SomeoneActive
  /\ SomeoneActive' => SomeoneActive
  /\ \A g \in Grants :
       /\ grant[g].st \in {"APPLYING", "APPLIED"} =>
            Plan(g)' = Plan(g) /\ grant'[g].task = grant[g].task /\ grant'[g].lease = grant[g].lease
       /\ grant[g].st = "APPLIED" => grant'[g].st = "APPLIED"
       /\ grant'[g].st = "APPLYING" => grant[g].st = "APPLYING"

LEMMA StepsInFrame ==
  ASSUME LedgerInv, [XNext]_xvars
  PROVE  Frame \/ \E a \in Appliers, g \in Grants, p \in Plans, d \in Lags : Consume(a, g, p, d)
<1> USE DEF files
<1>1. CASE UNCHANGED <<grant, step>> /\ space' \in {space, "INTEGRITY_BLOCKED"} /\ linked' = linked
  BY <1>1 DEF Frame, SomeoneActive, Active, Plan
<1>2. CASE XTick
  <2>1. ASSUME NEW g \in Grants
        PROVE  /\ grant'[g].st = grant[g].st /\ grant'[g].task = grant[g].task
               /\ grant'[g].lease = grant[g].lease /\ Plan(g)' = Plan(g)
    <3>1. \A r \in GrantRow, n \in Int :
            LET s == [r EXCEPT !.left = n]
            IN  s.st = r.st /\ s.task = r.task /\ s.lease = r.lease /\ s.plan = r.plan
      BY DEF GrantRow
    <3>2. grant[g] \in GrantRow /\ grant[g].left - 1 \in Int
      BY DEF LedgerInv, XTypeOK, GrantRow
    <3>3. grant'[g] = grant[g] \/ grant'[g] = [grant[g] EXCEPT !.left = grant[g].left - 1]
      BY <1>2 DEF XTick
    <3> QED
      BY <3>1, <3>2, <3>3 DEF Plan
  <2> QED
    BY <1>2, <2>1 DEF XTick, Frame, SomeoneActive, Active
<1>3. ASSUME NEW g \in Grants, NEW t \in Tasks, IssueGrant(g, t) PROVE Frame
  <2>1. /\ grant[g].st = "NONE" /\ grant'[g].st = "ISSUED"
        /\ \A h \in Grants \ {g} : grant'[h] = grant[h]
    BY <1>3 DEF IssueGrant, LedgerInv, XTypeOK
  <2> QED
    BY <1>3, <2>1 DEF IssueGrant, Frame, SomeoneActive, Active, Plan
<1>4. CASE WorkerSide
  BY <1>1, <1>3, <1>4 DEF WorkerSide, WorkerJoins, WorkerBeats, WorkerAnswers, FailureLands, Stored
\* A grant that is settled was not settled before, and nobody starts to work.
<1>5. ASSUME NEW g \in Grants, NEW s \in GrantStates \ {"APPLYING"},
             SetGrant(g, s) \/ SettleGrant(g, s), grant[g].st # "APPLIED" \/ SettleGrant(g, s),
             space' \in {space, "INTEGRITY_BLOCKED"}, UNCHANGED linked,
             SomeoneActive' => SomeoneActive
      PROVE  Frame
  <2>1. /\ \A h \in Grants : /\ Plan(h)' = Plan(h) /\ grant'[h].task = grant[h].task
                             /\ grant'[h].lease = grant[h].lease
                             /\ h # g => grant'[h] = grant[h]
        /\ grant'[g].st = s \/ grant' = grant
    BY <1>5, Settled DEF LedgerInv
  <2>2. grant[g].st = "APPLIED" => grant'[g].st = "APPLIED"
    BY <1>5 DEF SettleGrant
  <2> QED
    BY <1>5, <2>1, <2>2 DEF Frame
<1>6. CASE RuntimeStep
  <2>1. CASE RecoverWrite
    <3>1. cycle.g \in Grants
      BY <2>1 DEF RecoverWrite, CycleAt, LedgerInv, WorkInv, OneTransaction, Applying
    <3>2. CASE UNCHANGED grant
      BY <1>1, <2>1, <3>2 DEF RecoverWrite
    <3>3. ASSUME NEW s \in {"FAILED", "INTEGRITY_BLOCKED", "APPLIED"}, SettleGrant(cycle.g, s),
                 UNCHANGED space
          PROVE  Frame
      BY <1>5, <2>1, <3>1, <3>3 DEF RecoverWrite, GrantStates, SomeoneActive, Active
    <3> QED
      BY <2>1, <3>2, <3>3 DEF RecoverWrite
  <2> QED
    BY <1>1, <1>6, <2>1 DEF RuntimeStep, BeginCycle, ReconcileStale, SelectExpired, Reclaim,
       Reconciled, RecoverBlock, Recovered, EndCycle,
       RecoverRead, RouteNobody, Route, Stored
<1>7. CASE AbortCycle
  BY <1>1, <1>7 DEF AbortCycle, Stored
<1>8. CASE Crashes
  <2>1. ~SomeoneActive'
    BY <1>8 DEF Crashes, SomeoneActive, Active, Resting, At
  <2> QED
    BY <1>8, <2>1 DEF Crashes, Frame, Plan
<1>9. ASSUME NEW a \in Appliers, Progress(a) PROVE Frame
  <2>1. SomeoneActive /\ step[a].g \in Grants /\ grant[step[a].g].st = "APPLYING"
    <3>1. Active(a)
      BY <1>9 DEF Progress, Check, Authorize, Write, Unlink, Verify, Commit, Raise, Undo,
         UndoRaises, Condemn, Terminalize, AtStep, Active
    <3> QED
      BY <3>1, ActiveIsUnderway DEF SomeoneActive, Applying
  <2>2. ASSUME NEW d \in Lags, Commit(a, d) PROVE Frame
    BY <1>5, <2>1, <2>2 DEF Commit, GrantStates
  <2>3. CASE Terminalize(a)
    BY <1>5, <2>1, <2>3 DEF Terminalize, GrantStates
  <2>4. CASE UNCHANGED grant /\ space' \in {space, "INTEGRITY_BLOCKED"}
    BY <2>1, <2>4 DEF Frame, Plan
  <2> QED
    BY <1>9, <2>2, <2>3, <2>4 DEF Progress, Check, Authorize, Write, Unlink, Verify, Raise, Undo,
       UndoRaises, Condemn
<1>10. ASSUME NEW a \in Appliers, NEW g \in Grants, NEW d \in Lags, Expire(a, g, d) PROVE Frame
  BY <1>5, <1>10 DEF Expire, GrantStates, SomeoneActive, Active
<1> QED
  BY <1>1, <1>2, <1>4, <1>6, <1>7, <1>8, <1>9, <1>10 DEF XNext, ApplyStep, xvars

\* What a step of the store does to a task: it comes under lease only by a claim,
\* and under review only by a delivery.
LEMMA TaskFrame ==
  ASSUME TypeOK, StoreStep, NEW t \in Tasks
  PROVE  /\ rows[t] \subseteq rows'[t]
         /\ state'[t] \in OnLease =>
              (state[t] \in OnLease /\ lease'[t] = lease[t]) \/ CycleAt("route")
         /\ state'[t] = "REVIEW_PENDING" =>
              \/ state[t] = "REVIEW_PENDING" /\ lease'[t] = lease[t]
              \/ rows'[t] # {}
              \/ Delivered(t) /\ lease'[t] = lease[t]
<1> USE DEF OnLease, TypeOK
<1>1. CASE UNCHANGED vars
  BY <1>1 DEF vars
<1>2. CASE Tick
  BY <1>2 DEF Tick
<1>3. ASSUME NEW w \in Workers, NEW k \in Capacities, RegisterWorker(w, k, 0) \/ Heartbeat(w, 0, k, 0)
      PROVE  UNCHANGED taskVars
  BY <1>3 DEF RegisterWorker, Heartbeat
<1>4. CASE UNCHANGED taskVars
  BY <1>4 DEF taskVars
<1>5. ASSUME NEW u \in Tasks, CreateTask(u) \/ Start(u, 0) \/ MarkWaitingCapacity(u)
      PROVE  /\ UNCHANGED <<rows, lease>>
             /\ \A v \in Tasks : state'[v] = state[v] \/ (v = u /\ state'[u] \notin {"LEASED", "REVIEW_PENDING"}
                                                         /\ (state'[u] = "RUNNING" => state[u] = "LEASED"))
  BY <1>5 DEF CreateTask, Start, MarkWaitingCapacity
<1>6. ASSUME NEW u \in Tasks, NEW w \in Workers, NEW d \in Lags, Claim(u, w, d)
      PROVE  /\ UNCHANGED rows
             /\ \A v \in Tasks : (state'[v] = state[v] /\ lease'[v] = lease[v]) \/ state'[v] = "LEASED"
  BY <1>6 DEF Claim, TakeLease
<1>7. ASSUME NEW u \in Tasks, NEW e \in Evidence, SubmitResult(u, e, 0)
      PROVE  /\ \A v \in Tasks : rows[v] \subseteq rows'[v] /\ lease'[v] = lease[v]
             /\ \A v \in Tasks \ {u} : state'[v] = state[v]
             /\ rows'[u] # {} /\ state'[u] = "REVIEW_PENDING"
  BY <1>7 DEF SubmitResult
<1>8. ASSUME NEW u, NEW a, Charge(u, a)
      PROVE  /\ UNCHANGED rows /\ \A v \in Tasks \ {u} : state'[v] = state[v] /\ lease'[v] = lease[v]
             /\ u \in Tasks => state'[u] \in {"RETRYING", "DEAD_LETTER"}
  BY <1>8 DEF Charge, ChargeTo
<1>9. ASSUME NEW u \in Tasks, Delivered(u)
      PROVE  /\ UNCHANGED <<rows, lease>> /\ state'[u] = "REVIEW_PENDING"
             /\ \A v \in Tasks \ {u} : state'[v] = state[v]
  BY <1>9 DEF Delivered, SendToReview
<1>10. CASE LateWrite \/ \E u \in Tasks, d \in Lags : ReclaimExpired(u, d)
  <2>1. PICK u, a : Charge(u, a)
    BY <1>10 DEF LateWrite, FailWrite, StaleWrite, ReclaimExpired
  <2> QED
    BY <1>8, <2>1
<1>11. CallMade => UNCHANGED taskVars
  BY DEF CallMade, FailRead, StaleRead, StaleSelect, Forgotten
<1> QED
  BY <1>1, <1>2, <1>3, <1>4, <1>5, <1>6, <1>7, <1>9, <1>10, <1>11 DEF StoreStep

LEMMA LeaseOfOpenGrantKept ==
  ASSUME EvidenceInv, [XNext]_xvars
  PROVE  LeaseOfOpenGrant'
<1> USE DEF EvidenceInv, LedgerInv, WorkInv
<1>1. SUFFICES ASSUME NEW g \in Grants, grant'[g].st = "APPLYING", Settleable(g)',
                      (state[grant[g].task] \in OnLease)'
               PROVE  (lease[grant[g].task] = grant[g].lease)'
  BY DEF LeaseOfOpenGrant, Applying
<1>2. CASE \E a \in Appliers, h \in Grants, p \in Plans, d \in Lags : Consume(a, h, p, d)
  <2>1. PICK a \in Appliers, h \in Grants, p \in Plans, d \in Lags : Consume(a, h, p, d)
    BY <1>2
  <2>2. /\ g = h /\ grant'[g].task = grant[g].task /\ grant'[g].lease = grant[g].lease
        /\ lease[grant[g].task] = grant[g].lease /\ UNCHANGED lease
    <3>1. \A k \in Grants \ {h} : grant'[k] = grant[k] /\ grant[k].st # "APPLYING"
      BY <2>1 DEF Consume, Applying, XTypeOK
    <3>2. g = h
      BY <1>1, <3>1
    <3> QED
      BY <2>1, <3>2 DEF Consume, Authority, XTypeOK, GrantRow, vars
  <2> QED
    BY <2>2
<1>3. CASE Frame
  <2>1. /\ grant[g].st = "APPLYING" /\ g \in Applying /\ Plan(g)' = Plan(g)
        /\ grant'[g].task = grant[g].task /\ grant'[g].lease = grant[g].lease
        /\ grant[g].task \in Tasks
    BY <1>1, <1>3 DEF Frame, Applying, OneTransaction
  <2>2. Settleable(g)
    BY <1>1, <1>3, <2>1 DEF Settleable, Frame, SomeoneActive, Readable
  <2>3. ~CycleAt("route")
    <3>1. CycleAt("route") => Stuck(g) /\ cycle # NoCycle
      BY <2>1 DEF RecoveredBeforeRouting, CycleAt, NoCycle, Cycle
    <3> QED
      BY <2>2, <3>1, NobodyActive DEF Stuck, Settleable
  <2> QED
    BY <1>1, <2>1, <2>2, <2>3, StoreSteps, TaskFrame DEF LeaseOfOpenGrant
<1> QED
  BY <1>2, <1>3, StepsInFrame

LEMMA ReviewHasEvidenceKept ==
  ASSUME EvidenceInv, [XNext]_xvars
  PROVE  ReviewHasEvidence'
<1> USE DEF EvidenceInv, LedgerInv, WorkInv
<1>1. SUFFICES ASSUME NEW t \in Tasks, state'[t] = "REVIEW_PENDING", rows'[t] = {}
               PROVE  \E g \in Grants : grant'[g].st = "APPLIED" /\ grant'[g].task = t
                                        /\ grant'[g].lease = lease'[t]
  BY DEF ReviewHasEvidence
<1>2. \/ state[t] = "REVIEW_PENDING" /\ lease'[t] = lease[t] /\ rows[t] = {}
      \/ Delivered(t) /\ lease'[t] = lease[t]
  BY <1>1, StoreSteps, TaskFrame
<1>3. \A g \in Grants :
        /\ grant[g].st \in {"APPLYING", "APPLIED"} =>
             grant'[g].task = grant[g].task /\ grant'[g].lease = grant[g].lease
        /\ grant[g].st = "APPLIED" => grant'[g].st = "APPLIED"
  <2>1. ASSUME NEW a \in Appliers, NEW g \in Grants, NEW p \in Plans, NEW d \in Lags, Consume(a, g, p, d)
        PROVE  grant[g].st = "ISSUED" /\ \A h \in Grants \ {g} : grant'[h] = grant[h]
    BY <2>1 DEF Consume, XTypeOK
  <2> QED
    BY <2>1, StepsInFrame DEF Frame
<1>4. CASE state[t] = "REVIEW_PENDING" /\ lease'[t] = lease[t] /\ rows[t] = {}
  BY <1>3, <1>4 DEF ReviewHasEvidence
<1>5. CASE Delivered(t) /\ lease'[t] = lease[t]
  <2>1. PICK g \in Applying : Settleable(g) /\ grant[g].task = t /\ grant'[g].st = "APPLIED"
    BY <1>5 DEF Delivered
  <2>2. lease[t] = grant[g].lease
    BY <1>5, <2>1 DEF LeaseOfOpenGrant, Delivered, OnLease
  <2> QED
    BY <1>3, <1>5, <2>1, <2>2 DEF Applying
<1> QED
  BY <1>2, <1>4, <1>5

LEMMA RecoveredBeforeRoutingKept ==
  ASSUME EvidenceInv, [XNext]_xvars
  PROVE  RecoveredBeforeRouting'
<1> USE DEF EvidenceInv, LedgerInv, WorkInv
\* No transaction opens under the cycle, and a stuck one stays stuck.
<1>1. ASSUME cycle # NoCycle, NEW g \in Grants, grant'[g].st = "APPLYING"
      PROVE  g \in Applying /\ (Stuck(g) => Stuck(g)')
  <2>1. Frame /\ ~SomeoneActive
    BY <1>1, StepsInFrame, NobodyActive DEF Consume, MayApply, SomeoneActive
  <2> QED
    BY <1>1, <2>1 DEF Frame, Applying, Stuck, Readable, XTypeOK
<1>2. CASE cycle' = cycle
  BY <1>1, <1>2 DEF RecoveredBeforeRouting, Applying, NoCycle, Cycle
<1>3. CASE cycle'.at \in {"rest", "reconcile", "reclaim"}
  BY <1>3 DEF RecoveredBeforeRouting
<1>4. CASE Reconciled
  <2>1. cycle # NoCycle
    BY <1>4 DEF Reconciled, CycleAt, NoCycle, Cycle
  <2>2. CASE cycle' = Cycle("recover", IF space = "AVAILABLE" THEN Applying ELSE {}, NoGrant, "none")
             /\ UNCHANGED space
    BY <1>1, <2>1, <2>2 DEF RecoveredBeforeRouting, Applying, Cycle, Stuck
  <2> QED
    BY <1>4, <2>2 DEF Reconciled, CycleTo, Stored
<1>5. ASSUME NEW h \in Grants, RecoverRead(h) PROVE RecoveredBeforeRouting'
  <2>1. /\ CycleAt("recover") /\ cycle # NoCycle /\ UNCHANGED <<grant, space, linked>>
    BY <1>5 DEF RecoverRead, CycleAt, NoCycle, Cycle, Stored, files
  <2>2. \/ cycle' = Cycle("recover", cycle.todo \ {h}, NoGrant, "none")
           /\ (grant[h].st # "APPLYING" \/ Stuck(h))
        \/ \E at \in {"settle", "condemn"}, saw \in {"pre", "post", "mixed"} :
             cycle' = Cycle(at, cycle.todo \ {h}, h, saw)
    BY <1>5 DEF RecoverRead, CycleTo, Stuck
  <2>3. ASSUME NEW g \in Grants, grant'[g].st = "APPLYING", g # h
        PROVE  g \in cycle.todo \ {h} \/ Stuck(g)'
    BY <1>1, <2>1, <2>3 DEF RecoveredBeforeRouting, CycleAt
  <2>4. grant'[h].st = "APPLYING" => grant[h].st = "APPLYING" /\ (Stuck(h) => Stuck(h)')
    BY <1>1, <2>1
  <2> QED
    BY <2>2, <2>3, <2>4 DEF RecoveredBeforeRouting, Applying, Cycle
<1>6. CASE RecoverBlock
  BY <1>6 DEF RecoverBlock, RecoveredBeforeRouting, Stuck
<1>7. CASE RecoverWrite
  <2>1. /\ CycleAt("settle") /\ cycle # NoCycle /\ cycle.g \in Grants
        /\ cycle' = Cycle("recover", cycle.todo, NoGrant, "none")
    BY <1>7 DEF RecoverWrite, CycleAt, CycleTo, NoCycle, Cycle, OneTransaction, Applying
  <2>2. grant'[cycle.g].st # "APPLYING" \/ space' = "INTEGRITY_BLOCKED"
    <3>1. ASSUME NEW s \in {"FAILED", "INTEGRITY_BLOCKED", "APPLIED"}, SettleGrant(cycle.g, s)
          PROVE  grant'[cycle.g].st # "APPLYING"
      BY <2>1, <3>1, Settled DEF SettleGrant, GrantStates
    <3> QED
      BY <1>7, <3>1 DEF RecoverWrite
  <2>3. ASSUME NEW g \in Grants, grant'[g].st = "APPLYING" PROVE g \in cycle.todo \/ Stuck(g)'
    <3>1. g \in cycle.todo \/ g = cycle.g \/ Stuck(g)'
      BY <1>1, <2>1, <2>3 DEF RecoveredBeforeRouting, CycleAt
    <3> QED
      BY <2>2, <2>3, <3>1 DEF Stuck
  <2> QED
    BY <2>1, <2>3 DEF RecoveredBeforeRouting, Applying, Cycle
<1>8. CASE Recovered
  <2>1. /\ CycleAt("recover") /\ cycle # NoCycle /\ cycle.todo = {}
        /\ cycle' = Cycle("route", {}, NoGrant, "none")
    BY <1>8 DEF Recovered, CycleAt, CycleTo, NoCycle, Cycle
  <2> QED
    BY <1>1, <2>1 DEF RecoveredBeforeRouting, Applying, CycleAt, Cycle
<1>9. CASE BeginCycle \/ SelectExpired \/ EndCycle \/ AbortCycle \/ Crashes \/ \E t \in Tasks : Reclaim(t)
  BY <1>3, <1>9 DEF BeginCycle, SelectExpired, Reclaim, EndCycle, AbortCycle, Crashes, CycleTo, NoCycle, Cycle
<1>10. CASE XTick \/ WorkerSide \/ ReconcileStale \/ UNCHANGED xvars
  BY <1>2, <1>10 DEF XTick, WorkerSide, WorkerJoins, WorkerBeats, WorkerAnswers, FailureLands,
     IssueGrant, ReconcileStale, xvars
<1>11. ASSUME NEW t \in Tasks, (\E d \in Lags : RouteNobody(t, d) \/ \E w \in Workers : Route(t, w, d))
       PROVE  RecoveredBeforeRouting'
  BY <1>2, <1>11 DEF RouteNobody, Route
<1>12. ASSUME NEW a \in Appliers, ApplyStep(a) PROVE RecoveredBeforeRouting'
  BY <1>2, <1>12 DEF ApplyStep, Progress, Check, Authorize, Write, Unlink, Verify, Commit, Raise,
     Undo, UndoRaises, Condemn, Terminalize, Expire, Consume
<1> QED
  BY <1>4, <1>5, <1>6, <1>7, <1>8, <1>9, <1>10, <1>11, <1>12 DEF XNext, RuntimeStep

LEMMA EvidenceInvHolds == XSpec => []EvidenceInv
<1>1. XInit => LeaseOfOpenGrant /\ RecoveredBeforeRouting /\ ReviewHasEvidence
  BY DEF XInit, Init, LeaseOfOpenGrant, RecoveredBeforeRouting, ReviewHasEvidence, Applying, Unissued
<1>2. EvidenceInv /\ LedgerInv' /\ [XNext]_xvars => EvidenceInv'
  BY LeaseOfOpenGrantKept, RecoveredBeforeRoutingKept, ReviewHasEvidenceKept DEF EvidenceInv
<1>3. LedgerInv /\ LeaseOfOpenGrant /\ RecoveredBeforeRouting /\ ReviewHasEvidence <=> EvidenceInv
  BY DEF EvidenceInv
<1> QED
  BY <1>1, <1>2, <1>3, LedgerInvHolds, PTL DEF XSpec

\* No task comes under review without an evidence row of a worker or an applied
\* grant of the lease it is reviewed for, also when recovery finds the files written
\* after a crash and delivers for the dead applier: recover looks at the task's state
\* alone, and that suffices because reconcile and recover come before routing in
\* every cycle.
THEOREM ReviewsHaveEvidence == XSpec => []ReviewHasEvidence
<1>1. EvidenceInv => ReviewHasEvidence
  BY DEF EvidenceInv
<1> QED
  BY <1>1, EvidenceInvHolds, PTL

-----------------------------------------------------------------------------
(* The rows of the store, under late writes of both of its callers. *)

\* The row of a task says whether it may be worked on and under which lease it is.
RowSound(t) ==
  /\ ~Governed(t) => state[t] \in {"ABSENT", "QUEUED", "WAITING_HUMAN"} /\ granted[t] = 0
  /\ state[t] \in OnLease \cup {"EVIDENCE_PENDING", "REVIEW_PENDING"} =>
       <<t, owner[t]>> \in Capable /\ lease[t] = granted[t] /\ lease[t] > 0
\* What a call carries is about work that may be done, however late it is written.
CallSound(call) ==
  /\ \A t \in call.todo : Governed(t)
  /\ call.op \in {"failing", "staling"} => call.task \in Tasks /\ Governed(call.task)
RowsSound == (\A t \in Tasks : RowSound(t)) /\ \A c \in Clients : CallSound(pending[c])

LEMMA CallMadeSound ==
  ASSUME TypeOK, RowsSound, NEW c \in Clients, NEW call, CallSound(call), Carry(c, call)
  PROVE  \A x \in Clients : CallSound(pending[x])'
<1>1. \A x \in Clients : pending'[x] = IF x = c THEN call ELSE pending[x]
  BY DEF Carry, TypeOK
<1> QED
  BY <1>1 DEF RowsSound, CallSound, Governed

LEMMA ChargedRow ==
  ASSUME TypeOK, RowsSound, NEW t \in Tasks, Governed(t), NEW a, Charge(t, a)
  PROVE  \A u \in Tasks : RowSound(u)'
<1>1. /\ state'[t] \in {"DEAD_LETTER", "RETRYING"} /\ UNCHANGED granted
      /\ \A u \in Tasks \ {t} : state'[u] = state[u] /\ owner'[u] = owner[u] /\ lease'[u] = lease[u]
  BY DEF Charge, ChargeTo, TypeOK
<1> QED
  BY <1>1 DEF RowsSound, RowSound, OnLease, Governed

\* What the operations that governed execution and its cycle use do to a row.
LEMMA StoreStepKeepsRows ==
  ASSUME TypeOK, RowsSound, StoreStep
  PROVE  RowsSound'
<1> USE StoreConstants
<1>0. ASSUME NEW t \in Tasks, NEW s, state' = [state EXCEPT ![t] = s], UNCHANGED pending,
             \A u \in Tasks \ {t} : /\ owner'[u] = owner[u] /\ lease'[u] = lease[u]
                                    /\ granted'[u] = granted[u],
             state'[t] = s => RowSound(t)'
      PROVE  RowsSound'
  <2>1. state'[t] = s /\ \A u \in Tasks \ {t} : state'[u] = state[u]
    BY <1>0 DEF TypeOK
  <2>2. ASSUME NEW u \in Tasks \ {t} PROVE RowSound(u)'
    BY <1>0, <2>1 DEF RowsSound, RowSound, Governed
  <2>3. \A c \in Clients : CallSound(pending[c])'
    BY <1>0 DEF RowsSound, CallSound, Governed
  <2> QED
    BY <1>0, <2>1, <2>2, <2>3 DEF RowsSound
<1>1. ASSUME UNCHANGED <<state, owner, lease, granted>> PROVE \A t \in Tasks : RowSound(t)'
  BY <1>1 DEF RowsSound, RowSound, Governed
<1>2. ASSUME UNCHANGED <<state, owner, lease, granted, pending>> PROVE RowsSound'
  BY <1>1, <1>2 DEF RowsSound, CallSound, Governed
<1>3. CASE UNCHANGED vars \/ Tick \/ \E w \in Workers, k \in Capacities : RegisterWorker(w, k, 0) \/ Heartbeat(w, 0, k, 0)
  BY <1>2, <1>3 DEF vars, Tick, RegisterWorker, Heartbeat, taskVars
<1>4. ASSUME NEW t \in Tasks, CreateTask(t) PROVE RowsSound'
  <2>1. PICK s \in {"WAITING_HUMAN", "QUEUED"} : state' = [state EXCEPT ![t] = s]
    BY <1>4 DEF CreateTask
  <2>2. UNCHANGED <<owner, lease, granted, pending>> /\ state[t] = "ABSENT"
    BY <1>4 DEF CreateTask
  <2>3. state'[t] = s => RowSound(t)'
    BY <2>1, <2>2 DEF RowsSound, RowSound, Governed, OnLease
  <2> QED
    BY <1>0, <2>1, <2>2, <2>3
<1>5. ASSUME NEW t \in Tasks, Start(t, 0) \/ MarkWaitingCapacity(t) PROVE RowsSound'
  <2>1. PICK s \in {"RUNNING", "WAITING_CAPACITY"} :
          /\ state' = [state EXCEPT ![t] = s] /\ UNCHANGED <<owner, lease, granted, pending>>
          /\ s = "RUNNING" => state[t] = "LEASED"
          /\ s = "WAITING_CAPACITY" => Governed(t)
    BY <1>5 DEF Start, MarkWaitingCapacity, Schedulable
  <2>2. state'[t] = s => RowSound(t)'
    BY <2>1 DEF RowsSound, RowSound, Governed, OnLease
  <2> QED
    BY <1>0, <2>1, <2>2
<1>6. ASSUME NEW t \in Tasks, NEW w \in Workers, NEW d \in Lags, Claim(t, w, d) PROVE RowsSound'
  <2>1. /\ Governed(t) /\ <<t, w>> \in Capable /\ UNCHANGED pending
        /\ state' = [state EXCEPT ![t] = "LEASED"] /\ owner' = [owner EXCEPT ![t] = w]
        /\ granted' = [granted EXCEPT ![t] = @ + 1]
        /\ lease' = [lease EXCEPT ![t] = granted[t] + 1]
    BY <1>6 DEF Claim, Claimable, Schedulable, TakeLease
  <2>2. granted[t] \in Nat /\ granted'[t] = granted[t] + 1 /\ lease'[t] = granted[t] + 1 /\ owner'[t] = w
    BY <2>1 DEF TypeOK
  <2>3. state'[t] = "LEASED" => RowSound(t)'
    BY <2>1, <2>2 DEF RowSound, Governed, OnLease
  <2> QED
    BY <1>0, <2>1, <2>3 DEF TypeOK
<1>7. ASSUME NEW t \in Tasks, NEW d \in Lags, ReclaimExpired(t, d) PROVE RowsSound'
  <2>1. Governed(t) /\ Charge(t, attempts[t] + 1) /\ UNCHANGED pending
    BY <1>7 DEF ReclaimExpired, RowsSound, RowSound, OnLease
  <2> QED
    BY <2>1, ChargedRow DEF RowsSound, CallSound, Governed
<1>8. ASSUME NEW t \in Tasks, Delivered(t) \/ \E e \in Evidence : SubmitResult(t, e, 0)
      PROVE  RowsSound'
  <2>1. /\ state[t] \in OnLease \cup {"EVIDENCE_PENDING"}
        /\ state' = [state EXCEPT ![t] = "REVIEW_PENDING"]
        /\ UNCHANGED <<owner, lease, granted, pending>>
    BY <1>8 DEF Delivered, SendToReview, SubmitResult, MaySubmit, OnLease
  <2>2. state'[t] = "REVIEW_PENDING" => RowSound(t)'
    BY <2>1 DEF RowsSound, RowSound, Governed, OnLease
  <2> QED
    BY <1>0, <2>1, <2>2
<1>9. CASE CallMade
  <2>0. /\ Gateway \in Clients /\ Supervisor \in Clients
        /\ UNCHANGED taskVars
    BY <1>9, ExecutionConstants DEF CallMade, FailRead, StaleRead, StaleSelect, Forgotten
  <2>1. \A t \in Tasks : RowSound(t)'
    BY <1>1, <2>0 DEF taskVars
  <2>2. CallSound(Idle)
    BY DEF CallSound, Idle, Call
  <2>3. ASSUME NEW t \in Tasks, FailRead(Gateway, t) PROVE \A x \in Clients : CallSound(pending[x])'
    <3>1. CallSound(Call("failing", t, NoWorker, attempts[t], {}))
      BY <2>3 DEF FailRead, CallSound, Call, RowsSound, RowSound, OnLease
    <3> QED
      BY <2>0, <2>3, <3>1, CallMadeSound DEF FailRead
  <2>4. ASSUME NEW t \in Tasks, StaleRead(Supervisor, t) PROVE \A x \in Clients : CallSound(pending[x])'
    <3>1. CallSound(Call("staling", t, NoWorker, attempts[t], pending[Supervisor].todo))
      BY <2>0, <2>4 DEF StaleRead, CallSound, Call, RowsSound
    <3> QED
      BY <2>0, <2>4, <3>1, CallMadeSound DEF StaleRead
  <2>5. ASSUME NEW d \in Lags, StaleSelect(Supervisor, d) PROVE \A x \in Clients : CallSound(pending[x])'
    <3> DEFINE stale == {t \in Tasks : state[t] = "RUNNING" /\ ~Fresh(owner[t], d)}
    <3>1. CallSound(Call("stale", NoTask, NoWorker, 0, stale))
      BY DEF CallSound, Call, RowsSound, RowSound
    <3> QED
      BY <2>0, <2>5, <3>1, CallMadeSound DEF StaleSelect
  <2>6. ASSUME Forgotten PROVE \A x \in Clients : CallSound(pending[x])'
    <3>1. \A call : CallSound(call)' <=> CallSound(call)
      BY DEF CallSound, Governed
    <3>2. CASE pending' = [c \in Clients |-> Idle]
      BY <2>2, <3>1, <3>2
    <3>3. ASSUME NEW c \in Clients, Carry(c, Idle) PROVE \A x \in Clients : CallSound(pending[x])'
      BY <2>2, <3>3, CallMadeSound
    <3> QED
      BY <2>0, <2>6, <3>2, <3>3 DEF Forgotten
  <2> QED
    BY <1>9, <2>1, <2>3, <2>4, <2>5, <2>6 DEF CallMade, RowsSound
<1>10. CASE LateWrite
  <2>0. Gateway \in Clients /\ Supervisor \in Clients /\ CallSound(Idle)
    BY ExecutionConstants DEF CallSound, Idle, Call
  <2>1. PICK c \in Clients : \E call :
          /\ pending[c].task \in Tasks /\ Governed(pending[c].task)
          /\ Charge(pending[c].task, pending[c].att + 1)
          /\ Carry(c, call) /\ CallSound(call)
    <3>1. CASE FailWrite(Gateway)
      BY <2>0, <3>1 DEF FailWrite, RowsSound, CallSound
    <3>2. CASE StaleWrite(Supervisor)
      <4> DEFINE rest == pending[Supervisor].todo \ {pending[Supervisor].task}
      <4>1. CallSound(Call("stale", NoTask, NoWorker, 0, rest))
        BY <2>0 DEF CallSound, Call, RowsSound
      <4>2. Carry(Supervisor, Idle) \/ Carry(Supervisor, Call("stale", NoTask, NoWorker, 0, rest))
        BY <3>2 DEF StaleWrite, Continue
      <4> QED
        BY <2>0, <3>2, <4>1, <4>2 DEF StaleWrite, RowsSound, CallSound
    <3> QED
      BY <1>10, <3>1, <3>2 DEF LateWrite
  <2> QED
    BY <2>1, ChargedRow, CallMadeSound DEF RowsSound
<1> QED
  BY <1>3, <1>4, <1>5, <1>6, <1>7, <1>8, <1>9, <1>10 DEF StoreStep

LEMMA RowsSoundHolds == XSpec => []RowsSound
<1>1. XInit => RowsSound
  BY DEF XInit, Init, RowsSound, RowSound, CallSound, Idle, Call, OnLease
<1>2. LedgerInv /\ RowsSound /\ [XNext]_xvars => RowsSound'
  BY StoreSteps, StoreStepKeepsRows DEF LedgerInv
<1> QED
  BY <1>1, <1>2, LedgerInvHolds, PTL DEF XSpec

\* With grants, recovery and the cycle around it (execution.py, runtime.py) the store
\* keeps what it promises alone, though a reported failure and a stale heartbeat are
\* written over whatever the row has become: no unapproved task is ever claimed, and
\* a leased task has its owner and the lease of its latest claim.
THEOREM ExecutionKeepsRows == XSpec => [](HumanGate /\ HeldHasLease)
<1>1. RowsSound => HumanGate /\ HeldHasLease
  BY DEF RowsSound, RowSound, HumanGate, HeldHasLease
<1> QED
  BY <1>1, RowsSoundHolds, PTL

\* The claims of the cycle (runtime.py, router.py) leave their workers within capacity:
\* a claim is the only step of governed execution that grants a lease.
THEOREM ExecutionFitsCapacity == XSpec => ClaimsFitCapacity
<1>1. LedgerInv /\ [XNext]_xvars =>
        [\A t \in Tasks : granted'[t] > granted[t] => WithinCapacity(t)']_vars
  <2> SUFFICES ASSUME LedgerInv, StoreStep, NEW t \in Tasks, granted'[t] > granted[t]
               PROVE  WithinCapacity(t)'
    BY StoreSteps
  <2>1. granted[t] \in Nat /\ TypeOK
    BY DEF LedgerInv, TypeOK
  <2>2. PICK u \in Tasks, w \in Workers, d \in Lags : Claim(u, w, d)
    <3>1. ~UNCHANGED granted
      BY <2>1
    <3>2. ~(UNCHANGED vars \/ Tick \/ CallMade \/ LateWrite)
      BY <3>1 DEF vars, taskVars, Tick, CallMade, FailRead, StaleRead, StaleSelect, Forgotten,
         LateWrite, FailWrite, StaleWrite, Charge, ChargeTo
    <3> QED
      BY <3>1, <3>2 DEF StoreStep, taskVars, RegisterWorker, Heartbeat, CreateTask, Start,
         MarkWaitingCapacity, SubmitResult, ReclaimExpired, Charge, ChargeTo, Delivered, SendToReview
  <2>3. Claimable(u, w, d) /\ TakeLease(u, w, d)
    BY <2>2 DEF Claim
  <2>4. u = t
    BY <2>1, <2>3 DEF TakeLease, TypeOK
  <2> QED
    BY <2>1, <2>3, <2>4, ClaimFits
<1> QED
  BY <1>1, LedgerInvHolds, PTL DEF XSpec, ClaimsFitCapacity
=============================================================================
