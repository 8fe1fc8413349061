----------------------------- MODULE TaskStore -----------------------------
(***************************************************************************)
(* The durable task, worker and lease store of src/src/autonomy/store.py   *)
(* (AF-00) with its two callers, the scheduler and the supervisor (AF-01). *)
(*                                                                         *)
(* Several connections, here Clients, share one SQLite file.  A method     *)
(* that runs inside BEGIN IMMEDIATE ... COMMIT is one atomic action.  A    *)
(* method that reads a row, decides in Python and then writes with         *)
(* "UPDATE ... WHERE task_id=?" is one action per SQL statement, and what  *)
(* the client carries between its statements is its entry of pending.      *)
(*                                                                         *)
(* Time is relative: ttl[t] is lease_expires_at minus the present, age[w]  *)
(* the present minus last_heartbeat, both saturated where no comparison    *)
(* can tell larger values apart, so the clock needs no bound.  A method    *)
(* samples n before it waits for the database, or is handed the n of the   *)
(* caller's whole cycle; d is how far n lags behind the present.           *)
(***************************************************************************)
EXTENDS Integers, FiniteSets

CONSTANTS
  Tasks, Workers, Clients,
  NoTask, NoWorker,     \* SQL NULL
  Capable,              \* the (task, worker) pairs whose capability and target match
  HumanTasks,           \* created with requires_human_approval
  GovernedTasks,        \* created with governance_allowed
  RetryBudget,          \* retry_budget of each task
  Capacities,           \* the capacities a registration or heartbeat may publish
  Sla, LeaseTerm,       \* heartbeat_sla and lease_seconds, in ticks
  MaxLag,               \* the largest lag of a sampled clock
  Evidence,             \* evidence identities a worker may submit
  MaxGrants             \* bound: claims of each task

ASSUME StoreConstants ==
  /\ IsFiniteSet(Tasks) /\ NoTask \notin Tasks /\ NoWorker \notin Workers
  /\ Capable \subseteq Tasks \X Workers
  /\ HumanTasks \subseteq Tasks /\ GovernedTasks \subseteq Tasks
  /\ RetryBudget \in [Tasks -> Nat]
  /\ Capacities \subseteq Nat
  /\ Sla \in Nat /\ Sla > 0
  /\ MaxLag \in Nat /\ LeaseTerm \in Nat /\ LeaseTerm > 0
  /\ MaxGrants \in [Tasks -> Nat]

VARIABLES
  state,      \* tasks.state, "ABSENT" before the row exists
  owner,      \* tasks.assigned_worker_id
  lease,      \* tasks.lease_id: the number of the claim that made it, 0 for NULL
  ttl,        \* tasks.lease_expires_at - now, 0 for NULL
  attempts,   \* tasks.attempt_count
  verdict,    \* tasks.evidence_status
  rows,       \* the evidence rows of each task
  granted,    \* how often a task was claimed (its lease ids so far)
  age,        \* now - workers.last_heartbeat
  capacity,   \* workers.capacity, -1 before the row exists
  pending     \* what each client carries between two SQL statements

taskVars == <<state, owner, lease, ttl, attempts, verdict, rows, granted>>
workerVars == <<age, capacity>>
vars == <<state, owner, lease, ttl, attempts, verdict, rows, granted,
          age, capacity, pending>>

Terminal == {"COMPLETED", "FAILED_SAFE", "DEAD_LETTER"}
Leaseable == {"QUEUED", "WAITING_CAPACITY", "RETRYING"}
OnLease == {"LEASED", "RUNNING"}
\* The states some operation writes; NEW, VALIDATED, ASSIGNED and FAILED_SAFE
\* are declared by TaskState and written by nothing.
States == {"ABSENT", "WAITING_HUMAN", "EVIDENCE_PENDING", "REVIEW_PENDING",
           "COMPLETED", "DEAD_LETTER"} \cup Leaseable \cup OnLease
Verdicts == {"NONE", "MISSING_OR_INVALID", "RECEIVED", "VALID"}
Lags == 0..MaxLag
OldestAge == Sla + MaxLag + 1

Ops == {"idle", "failing", "completing", "schedule", "routing", "claiming",
        "waiting", "stale", "staling"}
Call(op, t, w, a, todo) ==
  [op |-> op, task |-> t, worker |-> w, att |-> a, todo |-> todo]
Idle == Call("idle", NoTask, NoWorker, 0, {})

TypeOK ==
  /\ state \in [Tasks -> States]
  /\ owner \in [Tasks -> Workers \cup {NoWorker}]
  /\ lease \in [Tasks -> Nat]
  /\ ttl \in [Tasks -> Int]
  /\ attempts \in [Tasks -> Nat]
  /\ verdict \in [Tasks -> Verdicts]
  /\ rows \in [Tasks -> SUBSET Evidence]
  /\ granted \in [Tasks -> Nat]
  /\ age \in [Workers -> Int]
  /\ capacity \in [Workers -> Nat \cup {-1}]
  /\ pending \in [Clients -> [op : Ops, task : Tasks \cup {NoTask},
                              worker : Workers \cup {NoWorker}, att : Nat,
                              todo : SUBSET Tasks]]

Init ==
  /\ state = [t \in Tasks |-> "ABSENT"]
  /\ owner = [t \in Tasks |-> NoWorker]
  /\ lease = [t \in Tasks |-> 0]
  /\ ttl = [t \in Tasks |-> 0]
  /\ attempts = [t \in Tasks |-> 0]
  /\ verdict = [t \in Tasks |-> "NONE"]
  /\ rows = [t \in Tasks |-> {}]
  /\ granted = [t \in Tasks |-> 0]
  /\ age = [w \in Workers |-> 0]
  /\ capacity = [w \in Workers |-> -1]
  /\ pending = [c \in Clients |-> Idle]
-----------------------------------------------------------------------------
(* Row predicates, each at a clock that lags d behind the present. *)

\* lease_expires_at > n
Live(t, d) == ttl[t] > -d

\* n - last_heartbeat <= heartbeat_sla and last_heartbeat <= n + 1
Fresh(w, d) == capacity[w] >= 0 /\ age[w] - d <= Sla /\ age[w] >= d - 1

\* the rows a worker's capacity is charged for
ActiveLeases(w, d) == {t \in Tasks : owner[t] = w /\ state[t] \in OnLease /\ Live(t, d)}

\* Fault: off by one at the capacity.
BadHasRoom(w, d) == Cardinality(ActiveLeases(w, d)) <= capacity[w]
HasRoom(w, d) == Cardinality(ActiveLeases(w, d)) < capacity[w]

Governed(t) == t \in GovernedTasks /\ t \notin HumanTasks

\* Fault: the governance flag is not consulted.
BadSchedulable == {t \in Tasks : state[t] \in Leaseable}
Schedulable == {t \in Tasks : state[t] \in Leaseable /\ Governed(t)}

\* An atomic call needs a connection that is not inside a call of its own.
SomeoneIdle == \E c \in Clients : pending[c] = Idle
-----------------------------------------------------------------------------
(* Tasks and workers. *)

CreateTask(t) ==
  /\ SomeoneIdle /\ state[t] = "ABSENT"
  /\ state' = [state EXCEPT ![t] = IF t \in HumanTasks THEN "WAITING_HUMAN" ELSE "QUEUED"]
  /\ UNCHANGED <<owner, lease, ttl, attempts, verdict, rows, granted, workerVars, pending>>

RegisterWorker(w, k, d) ==
  /\ SomeoneIdle
  /\ age' = [age EXCEPT ![w] = d]
  /\ capacity' = [capacity EXCEPT ![w] = k]
  /\ UNCHANGED <<taskVars, pending>>

\* observed_at may be any moment up to n + 1: an old observation moves the
\* stored heartbeat backwards.  With a capacity it is heartbeat_with_capacity.
Heartbeat(w, o, k, d) ==
  /\ SomeoneIdle /\ capacity[w] >= 0 /\ o >= d - 1
  /\ age' = [age EXCEPT ![w] = o]
  /\ capacity' = [capacity EXCEPT ![w] = k]
  /\ UNCHANGED <<taskVars, pending>>
-----------------------------------------------------------------------------
(* Lease operations that are one transaction. *)

Claimable(t, w, d) ==
  /\ t \in Schedulable /\ granted[t] < MaxGrants[t]
  /\ Fresh(w, d) /\ <<t, w>> \in Capable /\ HasRoom(w, d)

\* Fault: the row keeps the lease id it had.
BadTakeLease(t, w, d) ==
  /\ state' = [state EXCEPT ![t] = "LEASED"]
  /\ owner' = [owner EXCEPT ![t] = w]
  /\ granted' = [granted EXCEPT ![t] = @ + 1]
  /\ ttl' = [ttl EXCEPT ![t] = LeaseTerm - d]
  /\ UNCHANGED <<lease, attempts, verdict, rows, workerVars>>

TakeLease(t, w, d) ==
  /\ state' = [state EXCEPT ![t] = "LEASED"]
  /\ owner' = [owner EXCEPT ![t] = w]
  /\ granted' = [granted EXCEPT ![t] = @ + 1]
  /\ lease' = [lease EXCEPT ![t] = granted[t] + 1]
  /\ ttl' = [ttl EXCEPT ![t] = LeaseTerm - d]
  /\ UNCHANGED <<attempts, verdict, rows, workerVars>>

Claim(t, w, d) ==
  /\ SomeoneIdle /\ Claimable(t, w, d)
  /\ TakeLease(t, w, d)
  /\ UNCHANGED pending

Renew(t, d) ==
  /\ SomeoneIdle /\ state[t] \in OnLease /\ Live(t, d)
  /\ ttl' = [ttl EXCEPT ![t] = LeaseTerm - d]
  /\ UNCHANGED <<state, owner, lease, attempts, verdict, rows, granted, workerVars, pending>>

\* start and start_with_ack
Start(t, d) ==
  /\ SomeoneIdle /\ state[t] = "LEASED" /\ Live(t, d) /\ Fresh(owner[t], d)
  /\ state' = [state EXCEPT ![t] = "RUNNING"]
  /\ UNCHANGED <<owner, lease, ttl, attempts, verdict, rows, granted, workerVars, pending>>

ChargeTo(t, a, s) ==
  /\ state' = [state EXCEPT ![t] = s]
  /\ attempts' = [attempts EXCEPT ![t] = a]
  /\ owner' = [owner EXCEPT ![t] = NoWorker]
  /\ lease' = [lease EXCEPT ![t] = 0]
  /\ ttl' = [ttl EXCEPT ![t] = 0]
  /\ UNCHANGED <<verdict, rows, granted, workerVars>>

\* The write that every failed attempt ends in, a the attempt count it stores.
Charge(t, a) ==
  ChargeTo(t, a, IF a > RetryBudget[t] THEN "DEAD_LETTER" ELSE "RETRYING")

\* Faults: an expired lease is reclaimed from a delivered task; a task that was
\* leased but never started is forgotten.
BadReclaimDelivered(t, d) ==
  /\ SomeoneIdle /\ lease[t] > 0 /\ ~Live(t, d)
  /\ Charge(t, attempts[t] + 1)
  /\ UNCHANGED pending
BadReclaimRunning(t, d) ==
  /\ SomeoneIdle /\ state[t] = "RUNNING" /\ ~Live(t, d)
  /\ Charge(t, attempts[t] + 1)
  /\ UNCHANGED pending

ReclaimExpired(t, d) ==
  /\ SomeoneIdle /\ state[t] \in OnLease /\ ~Live(t, d)
  /\ Charge(t, attempts[t] + 1)
  /\ UNCHANGED pending

MaySubmit(t, d) ==
  /\ SomeoneIdle /\ state[t] \in OnLease \cup {"EVIDENCE_PENDING"}
  /\ Live(t, d) /\ Fresh(owner[t], d)

\* submit_result with an empty identity or a malformed digest
SubmitInvalid(t, d) ==
  /\ MaySubmit(t, d)
  /\ state' = [state EXCEPT ![t] = "EVIDENCE_PENDING"]
  /\ verdict' = [verdict EXCEPT ![t] = "MISSING_OR_INVALID"]
  /\ UNCHANGED <<owner, lease, ttl, attempts, rows, granted, workerVars, pending>>

SubmitResult(t, e, d) ==
  /\ MaySubmit(t, d) /\ e \notin rows[t]
  /\ rows' = [rows EXCEPT ![t] = @ \cup {e}]
  /\ state' = [state EXCEPT ![t] = "REVIEW_PENDING"]
  /\ verdict' = [verdict EXCEPT ![t] = "RECEIVED"]
  /\ UNCHANGED <<owner, lease, ttl, attempts, granted, workerVars, pending>>

\* mark_waiting_capacity, the guarded update the AF-02 router uses
MarkWaitingCapacity(t) ==
  /\ SomeoneIdle /\ t \in Schedulable
  /\ state' = [state EXCEPT ![t] = "WAITING_CAPACITY"]
  /\ UNCHANGED <<owner, lease, ttl, attempts, verdict, rows, granted, workerVars, pending>>
-----------------------------------------------------------------------------
(* Calls of several statements. *)

Carry(c, call) == pending' = [pending EXCEPT ![c] = call]

\* The loop client c is in is done with task t: its next task, or its end.
Continue(c, op, t) ==
  LET rest == pending[c].todo \ {t}
  IN  Carry(c, IF rest = {} THEN Idle ELSE Call(op, NoTask, NoWorker, 0, rest))

\* Fault: any reporter may fail any task it names.
BadFailRead(c, t) ==
  /\ pending[c] = Idle /\ state[t] \notin Terminal \cup {"ABSENT"}
  /\ Carry(c, Call("failing", t, NoWorker, attempts[t], {}))
  /\ UNCHANGED <<taskVars, workerVars>>

\* fail_attempt: the reporter holds the lease the row shows; expiry is not checked.
FailRead(c, t) ==
  /\ pending[c] = Idle /\ state[t] \in OnLease
  /\ Carry(c, Call("failing", t, NoWorker, attempts[t], {}))
  /\ UNCHANGED <<taskVars, workerVars>>

FailWrite(c) ==
  /\ pending[c].op = "failing"
  /\ Charge(pending[c].task, pending[c].att + 1)
  /\ Carry(c, Idle)

\* Fault: the review does not ask for received evidence.
BadReviewRead(c, t) ==
  /\ pending[c] = Idle /\ state[t] \in {"EVIDENCE_PENDING", "REVIEW_PENDING"}
  /\ Carry(c, Call("completing", t, NoWorker, 0, {}))
  /\ UNCHANGED <<taskVars, workerVars>>

ReviewRead(c, t) ==
  /\ pending[c] = Idle /\ state[t] = "REVIEW_PENDING" /\ verdict[t] = "RECEIVED"
  /\ Carry(c, Call("completing", t, NoWorker, 0, {}))
  /\ UNCHANGED <<taskVars, workerVars>>

ReviewWrite(c) ==
  /\ pending[c].op = "completing"
  /\ LET t == pending[c].task
     IN  /\ state' = [state EXCEPT ![t] = "COMPLETED"]
         /\ verdict' = [verdict EXCEPT ![t] = "VALID"]
         /\ owner' = [owner EXCEPT ![t] = NoWorker]
         /\ lease' = [lease EXCEPT ![t] = 0]
         /\ ttl' = [ttl EXCEPT ![t] = 0]
  /\ Carry(c, Idle)
  /\ UNCHANGED <<attempts, rows, granted, workerVars>>

\* schedule_once: the batch it read, then route_or_wait and claim for each task.
ScheduleSelect(c) ==
  /\ pending[c] = Idle /\ Schedulable # {}
  /\ Carry(c, Call("schedule", NoTask, NoWorker, 0, Schedulable))
  /\ UNCHANGED <<taskVars, workerVars>>

RoutingProhibited(t) ==
  state[t] \in Terminal \cup {"WAITING_HUMAN"} \/ t \notin GovernedTasks

RouteRead(c, t) ==
  /\ pending[c].op = "schedule" /\ t \in pending[c].todo
  /\ IF RoutingProhibited(t)
       THEN Continue(c, "schedule", t)
       ELSE Carry(c, Call("routing", t, NoWorker, 0, pending[c].todo))
  /\ UNCHANGED <<taskVars, workerVars>>

Available(t, d) == {w \in Workers : Fresh(w, d) /\ HasRoom(w, d) /\ <<t, w>> \in Capable}

\* One read transaction: the cursor over workers stays open through the loop.
RouteScan(c, d) ==
  /\ pending[c].op = "routing"
  /\ LET t == pending[c].task
         todo == pending[c].todo
     IN  \/ \E w \in Available(t, d) : Carry(c, Call("claiming", t, w, 0, todo))
         \/ Available(t, d) = {} /\ Carry(c, Call("waiting", t, NoWorker, 0, todo))
  /\ UNCHANGED <<taskVars, workerVars>>

RouteWait(c) ==
  /\ pending[c].op = "waiting"
  /\ state' = [state EXCEPT ![pending[c].task] = "WAITING_CAPACITY"]
  /\ Continue(c, "schedule", pending[c].task)
  /\ UNCHANGED <<owner, lease, ttl, attempts, verdict, rows, granted, workerVars>>

RouteClaim(c, d) ==
  /\ pending[c].op = "claiming"
  /\ Claimable(pending[c].task, pending[c].worker, d)
  /\ TakeLease(pending[c].task, pending[c].worker, d)
  /\ Continue(c, "schedule", pending[c].task)

\* schedule_once swallows whatever a task's routing raises (a refused claim, a
\* busy database) and goes on to the next task.
RouteSkip(c) ==
  /\ pending[c].op \in {"routing", "waiting", "claiming"}
  /\ Continue(c, "schedule", pending[c].task)
  /\ UNCHANGED <<taskVars, workerVars>>

\* reconcile_stale_workers: one SELECT, then per row a fresh read that checks
\* nothing and an update that checks nothing.
StaleSelect(c, d) ==
  LET stale == {t \in Tasks : state[t] = "RUNNING" /\ ~Fresh(owner[t], d)}
  IN  /\ pending[c] = Idle /\ stale # {}
      /\ Carry(c, Call("stale", NoTask, NoWorker, 0, stale))
      /\ UNCHANGED <<taskVars, workerVars>>

StaleRead(c, t) ==
  /\ pending[c].op = "stale" /\ t \in pending[c].todo
  /\ Carry(c, Call("staling", t, NoWorker, attempts[t], pending[c].todo))
  /\ UNCHANGED <<taskVars, workerVars>>

StaleWrite(c) ==
  /\ pending[c].op = "staling"
  /\ Charge(pending[c].task, pending[c].att + 1)
  /\ Continue(c, "stale", pending[c].task)

\* The process dies, or a statement raises: what it carried is lost.
Crash(c) ==
  /\ pending[c].op # "idle"
  /\ Carry(c, Idle)
  /\ UNCHANGED <<taskVars, workerVars>>
-----------------------------------------------------------------------------
Tick ==
  /\ ttl' = [t \in Tasks |-> IF lease[t] = 0 \/ ttl[t] <= -MaxLag THEN ttl[t] ELSE ttl[t] - 1]
  /\ age' = [w \in Workers |->
               IF capacity[w] < 0 \/ age[w] >= OldestAge THEN age[w] ELSE age[w] + 1]
  /\ UNCHANGED <<state, owner, lease, attempts, verdict, rows, granted, capacity, pending>>

WorkerStep ==
  \E w \in Workers, d \in Lags, k \in Capacities :
    \/ RegisterWorker(w, k, d)
    \/ \E o \in -1..OldestAge : Heartbeat(w, o, k, d)

TaskStep ==
  \E t \in Tasks :
    \/ CreateTask(t)
    \/ MarkWaitingCapacity(t)
    \/ \E d \in Lags :
         \/ \E w \in Workers : Claim(t, w, d)
         \/ Renew(t, d)
         \/ Start(t, d)
         \/ ReclaimExpired(t, d)
         \/ SubmitInvalid(t, d)
         \/ \E e \in Evidence : SubmitResult(t, e, d)

CallStep(c) ==
  \/ \E t \in Tasks : FailRead(c, t) \/ ReviewRead(c, t) \/ RouteRead(c, t) \/ StaleRead(c, t)
  \/ \E d \in Lags : RouteScan(c, d) \/ RouteClaim(c, d) \/ StaleSelect(c, d)
  \/ FailWrite(c) \/ ReviewWrite(c) \/ ScheduleSelect(c) \/ RouteWait(c) \/ RouteSkip(c)
  \/ StaleWrite(c) \/ Crash(c)

Next == Tick \/ WorkerStep \/ TaskStep \/ \E c \in Clients : CallStep(c)

Spec == Init /\ [][Next]_vars
-----------------------------------------------------------------------------
(* What holds however many connections share the file. *)

\* Work that a human must approve, or that governance did not allow, is never
\* claimed, charged, waited for or completed, whatever stale write lands.
HumanGate ==
  \A t \in Tasks : ~Governed(t) =>
    state[t] \in {"ABSENT", "QUEUED", "WAITING_HUMAN"} /\ granted[t] = 0

\* A task only reaches COMPLETED over an evidence row that some lease holder
\* submitted; the unguarded write of complete_after_review cannot lose it.
CompletedOnEvidence ==
  \A t \in Tasks :
    state[t] \in {"REVIEW_PENDING", "COMPLETED"} => rows[t] # {} /\ granted[t] > 0

\* A task in a leased state has its owner, and the lease of its latest claim:
\* reclaim_expired and worker_status compare lease_expires_at without a NULL test.
HeldHasLease ==
  \A t \in Tasks :
    state[t] \in OnLease \cup {"EVIDENCE_PENDING", "REVIEW_PENDING"} =>
      <<t, owner[t]>> \in Capable /\ lease[t] = granted[t] /\ lease[t] > 0

\* No claim, through whatever connection and with whatever lagging clock,
\* leaves its worker with more live leases than its published capacity.
WithinCapacity(t) ==
  Cardinality(ActiveLeases(owner[t], 0)) <= capacity[owner[t]]
ClaimsFitCapacity ==
  [][\A t \in Tasks : granted'[t] > granted[t] => WithinCapacity(t)']_vars
-----------------------------------------------------------------------------
(* What holds when one connection at a time uses the file. *)

SoleClient == \A c, d \in Clients : c = d

InFlightOrDone == {"LEASED", "RUNNING", "EVIDENCE_PENDING", "REVIEW_PENDING", "COMPLETED"}

\* Every claim of a task is accounted for exactly once: by a charge against its
\* retry budget, or by the attempt that is still in flight or was delivered.
EachLeaseChargedOnce ==
  \A t \in Tasks :
    granted[t] = attempts[t] + (IF state[t] \in InFlightOrDone THEN 1 ELSE 0)

\* A task is not claimed again while the lease of an earlier claim is live.
NoSecondLease ==
  [][\A t \in Tasks : granted'[t] > granted[t] => lease[t] = 0 \/ ttl[t] <= 0]_vars

Phase(t) ==
  CASE state[t] = "ABSENT" -> "absent"
    [] state[t] \in {"LEASED", "RUNNING", "EVIDENCE_PENDING"} -> "held"
    [] state[t] = "REVIEW_PENDING" -> "review"
    [] state[t] = "COMPLETED" -> "done"
    [] state[t] = "DEAD_LETTER" -> "dead"
    [] OTHER -> IF Governed(t) THEN "open" ELSE "barred"

Lifecycle == INSTANCE TaskLifecycle WITH
  phase <- [t \in Tasks |-> Phase(t)], holder <- owner,
  grants <- granted, charges <- attempts,
  Admissible <- GovernedTasks \ HumanTasks

\* The store is a lease service: its steps are those of TaskLifecycle.
ImplementsLifecycle == Lifecycle!Spec

\* A reconciling supervisor runs again and again and its process makes progress:
\* AutonomyRuntime.run_once calls Supervisor.reconcile in every cycle.
Fairness ==
  /\ WF_vars(Tick)
  /\ \A t \in Tasks : SF_vars(\E d \in Lags : ReclaimExpired(t, d))
  /\ \A c \in Clients : WF_vars(CallStep(c) /\ pending[c] # Idle)

FairSpec == Spec /\ Fairness

RenewSome == \E t \in Tasks, d \in Lags : Renew(t, d)

\* Once holders stop renewing, every lease ends: its task is delivered, waits for
\* evidence, or is handed back by reconciliation.
LeasesEnd ==
  <>[][~RenewSome]_vars =>
    \A t \in Tasks : state[t] \in OnLease ~> state[t] \notin OnLease
=============================================================================
