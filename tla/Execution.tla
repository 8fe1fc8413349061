----------------------------- MODULE Execution -----------------------------
(***************************************************************************)
(* Governed execution in a disposable workspace (execution.py, AF-03), the *)
(* in-memory sessions it trusts (gateway.py, AF-02) and the cycle of       *)
(* runtime.py (AF-04) that recovers it: reconcile, recover, route.         *)
(*                                                                         *)
(* One process holds the sessions and one workspace.  Appliers are the     *)
(* threads that call apply; a plan is carried out file by file, and the    *)
(* process may die between any two file operations or commits.  Of the     *)
(* store's Clients, Gateway is whoever holds the gateway's lock, and       *)
(* Supervisor the cycle: their calls of several statements interleave with *)
(* everything else.  Times are as in TaskStore: the cycle and apply use a  *)
(* clock they sampled earlier, d ticks behind.                             *)
(***************************************************************************)
EXTENDS TaskStore, Sequences

CONSTANTS
  Appliers,
  Grants,        \* grant ids
  Files, Contents, Absent,
  FirstDisk,     \* the files at the start
  Plans,         \* plans: sequences of operations in path order
  GrantTerm,     \* grant_seconds, in ticks
  NoGrant,
  Gateway, Supervisor  \* the clients that report failures and reconcile

ASSUME ExecutionConstants ==
  /\ FirstDisk \in [Files -> Contents] /\ Absent \in Contents
  /\ \A p \in Plans :
       /\ p \in Seq([file : Files, pre : Contents, post : Contents]) /\ p # <<>>
       /\ \A i, j \in 1..Len(p) : p[i].file = p[j].file => i = j
  /\ GrantTerm \in Nat /\ NoGrant \notin Grants
  /\ Gateway \in Clients /\ Supervisor \in Clients /\ Gateway # Supervisor

VARIABLES
  bound,       \* workers with a session in the gateway's memory
  dispatched,  \* tasks with a dispatch in the gateway's memory
  grant,       \* execution_grants and execution_transactions
  space,       \* execution_workspaces.state
  disk,        \* the files
  linked,      \* files whose temporary name still exists: they have two links
  step,        \* where each applier is
  cycle,       \* where the runtime cycle is
  last         \* history: the grant consumed last

xvars == <<vars, bound, dispatched, grant, space, disk, linked, step, cycle, last>>
memory == <<bound, dispatched>>
files == <<disk, linked>>

GrantStates == {"NONE", "ISSUED", "EXPIRED", "APPLYING", "APPLIED", "FAILED", "INTEGRITY_BLOCKED"}
GrantRow == [st : GrantStates, task : Tasks \cup {NoTask}, worker : Workers \cup {NoWorker},
             lease : Nat, left : Int, plan : Plans \cup {<<>>}]
Unissued == [st |-> "NONE", task |-> NoTask, worker |-> NoWorker, lease |-> 0, left |-> 0, plan |-> <<>>]

At(at, g, i) == [at |-> at, g |-> g, i |-> i]
Resting == At("rest", NoGrant, 0)
Cycle(at, todo, g, saw) == [at |-> at, todo |-> todo, g |-> g, saw |-> saw]
NoCycle == Cycle("rest", {}, NoGrant, "none")

XTypeOK ==
  /\ bound \subseteq Workers /\ dispatched \subseteq Tasks
  /\ grant \in [Grants -> GrantRow]
  /\ space \in {"AVAILABLE", "INTEGRITY_BLOCKED"}
  /\ disk \in [Files -> Contents] /\ linked \subseteq Files
  /\ step \in [Appliers -> [at : {"rest", "check", "ready", "write", "unlink", "final", "commit",
                                  "undo", "condemn", "failed", "blocked"},
                            g : Grants \cup {NoGrant}, i : Nat]]
  /\ cycle \in [at : {"rest", "reconcile", "reclaim", "recover", "condemn", "settle", "route"},
                todo : SUBSET (Tasks \cup Grants), g : Grants \cup {NoGrant},
                saw : {"none", "pre", "post", "mixed"}]
  /\ last \in Grants \cup {NoGrant}

XInit ==
  /\ Init
  /\ bound = {} /\ dispatched = {}
  /\ grant = [g \in Grants |-> Unissued]
  /\ space = "AVAILABLE" /\ disk = FirstDisk /\ linked = {}
  /\ step = [a \in Appliers |-> Resting] /\ cycle = NoCycle
  /\ last = NoGrant
-----------------------------------------------------------------------------
(* Authority and evidence. *)

\* result keeps the gateway's lock over both statements of fail_attempt.
Unlocked == pending[Gateway] = Idle

\* _authority: the grant's lease is still the task's, and its session is known,
\* which is looked up under the lock.
Authority(g, d) ==
  LET r == grant[g]
  IN  /\ Unlocked
      /\ state[r.task] = "RUNNING" /\ owner[r.task] = r.worker /\ lease[r.task] = r.lease
      /\ Live(r.task, d) /\ r.left > -d
      /\ Fresh(r.worker, d) /\ r.worker \in bound

\* _fresh_authority
Fit(g, d) == grant[g].st = "APPLYING" /\ Authority(g, d) /\ space = "AVAILABLE"

Plan(g) == grant[g].plan
ShowsPre(p) == \A i \in 1..Len(p) : disk[p[i].file] = p[i].pre
ShowsPost(p) == \A i \in 1..Len(p) : disk[p[i].file] = p[i].post
Readable(p) == \A i \in 1..Len(p) : p[i].file \notin linked

Applying == {g \in Grants : grant[g].st = "APPLYING"}
SetGrant(g, s) == grant' = [grant EXCEPT ![g].st = s]

\* Both the transaction and the grant, and only while they are being applied.
SettleGrant(g, s) == grant' = IF grant[g].st = "APPLYING" THEN [grant EXCEPT ![g].st = s] ELSE grant

\* The task as _apply_ and recover deliver it, guarded by its state alone.
SendToReview(t) ==
  /\ state' = [state EXCEPT ![t] = "REVIEW_PENDING"]
  /\ verdict' = [verdict EXCEPT ![t] = "RECEIVED"]
  /\ UNCHANGED <<owner, lease, ttl, attempts, rows, granted, workerVars, pending>>
-----------------------------------------------------------------------------
(* Workers, through the gateway of this process, one call at a time. *)

WorkerJoins(w, k) ==
  /\ Unlocked /\ bound' = bound \cup {w}
  /\ RegisterWorker(w, k, 0)
  /\ UNCHANGED <<dispatched, grant, space, files, step, cycle, last>>

WorkerBeats(w, k) ==
  /\ Unlocked /\ w \in bound /\ Heartbeat(w, 0, k, 0)
  /\ UNCHANGED <<memory, grant, space, files, step, cycle, last>>

\* acknowledge, and the two outcomes of result, need the dispatch in memory.  A
\* failure is read and checked here and written by FailureLands.
WorkerAnswers(t) ==
  /\ Unlocked /\ t \in dispatched /\ owner[t] \in bound
  /\ \/ Start(t, 0)
     \/ state[t] = "RUNNING" /\ \E e \in Evidence : SubmitResult(t, e, 0)
     \/ state[t] = "RUNNING" /\ Live(t, 0) /\ Fresh(owner[t], 0) /\ FailRead(Gateway, t)
  /\ UNCHANGED <<memory, grant, space, files, step, cycle, last>>

\* The second statement of fail_attempt lands on whatever the row has become, or
\* finds the database busy and raises.
FailureLands ==
  /\ FailWrite(Gateway) \/ Crash(Gateway)
  /\ UNCHANGED <<memory, grant, space, files, step, cycle, last>>

IssueGrant(g, t) ==
  /\ Unlocked /\ grant[g].st = "NONE" /\ state[t] = "RUNNING" /\ Live(t, 0)
  /\ Fresh(owner[t], 0) /\ owner[t] \in bound
  /\ grant' = [grant EXCEPT ![g] =
       [st |-> "ISSUED", task |-> t, worker |-> owner[t], lease |-> lease[t],
        left |-> IF ttl[t] < GrantTerm THEN ttl[t] ELSE GrantTerm, plan |-> <<>>]]
  /\ UNCHANGED <<vars, memory, space, files, step, cycle, last>>
-----------------------------------------------------------------------------
(* apply: consume the grant, check, write each file, commit; or undo. *)

Goto(a, at, g, i) == step' = [step EXCEPT ![a] = At(at, g, i)]
AtStep(a, at) == step[a].at = at
Op(a) == Plan(step[a].g)[step[a].i]
NextOp(a) ==
  IF step[a].i < Len(Plan(step[a].g)) THEN Goto(a, "ready", step[a].g, step[a].i + 1)
                                      ELSE Goto(a, "final", step[a].g, 0)

MayApply == cycle = NoCycle
Expired(g, d) ==
  grant[g].left <= -d \/ lease[grant[g].task] # grant[g].lease \/ ~Live(grant[g].task, d)

Expire(a, g, d) ==
  /\ AtStep(a, "rest") /\ MayApply /\ grant[g].st = "ISSUED" /\ Expired(g, d)
  /\ SetGrant(g, "EXPIRED")
  /\ UNCHANGED <<vars, memory, space, files, step, cycle, last>>

Consume(a, g, p, d) ==
  /\ AtStep(a, "rest") /\ MayApply /\ grant[g].st = "ISSUED" /\ ~Expired(g, d)
  /\ Authority(g, d) /\ space = "AVAILABLE" /\ Applying = {}
  /\ Readable(p) /\ ShowsPre(p)
  /\ grant' = [grant EXCEPT ![g].st = "APPLYING", ![g].plan = p]
  /\ last' = g
  /\ Goto(a, "check", g, 0)
  /\ UNCHANGED <<vars, memory, space, files, cycle>>

\* The preimages are read again and kept to be restored.
Check(a) ==
  /\ AtStep(a, "check") /\ Fit(step[a].g, 0)
  /\ Readable(Plan(step[a].g)) /\ ShowsPre(Plan(step[a].g))
  /\ Goto(a, "ready", step[a].g, 1)
  /\ UNCHANGED <<vars, memory, grant, space, files, cycle, last>>

Authorize(a) ==
  /\ AtStep(a, "ready") /\ Fit(step[a].g, 0)
  /\ Op(a).file \notin linked /\ disk[Op(a).file] = Op(a).pre
  /\ Goto(a, "write", step[a].g, step[a].i)
  /\ UNCHANGED <<vars, memory, grant, space, files, cycle, last>>

\* DELETE unlinks; REPLACE renames the temporary file over the target; CREATE
\* links it to the target and only then removes the temporary name.
Write(a) ==
  /\ AtStep(a, "write")
  /\ disk[Op(a).file] = Op(a).pre
  /\ disk' = [disk EXCEPT ![Op(a).file] = Op(a).post]
  /\ IF Op(a).pre = Absent
       THEN linked' = linked \cup {Op(a).file} /\ Goto(a, "unlink", step[a].g, step[a].i)
       ELSE UNCHANGED linked /\ NextOp(a)
  /\ UNCHANGED <<vars, memory, grant, space, cycle, last>>

Unlink(a) ==
  /\ AtStep(a, "unlink")
  /\ linked' = linked \ {Op(a).file}
  /\ NextOp(a)
  /\ UNCHANGED <<vars, memory, grant, space, disk, cycle, last>>

Verify(a) ==
  /\ AtStep(a, "final") /\ Fit(step[a].g, 0)
  /\ Readable(Plan(step[a].g)) /\ ShowsPost(Plan(step[a].g))
  /\ Goto(a, "commit", step[a].g, 0)
  /\ UNCHANGED <<vars, memory, grant, space, files, cycle, last>>

\* The clock is the one sampled before the last verification.
Commit(a, d) ==
  /\ AtStep(a, "commit") /\ Fit(step[a].g, d)
  /\ SetGrant(step[a].g, "APPLIED")
  /\ SendToReview(grant[step[a].g].task)
  /\ step' = [step EXCEPT ![a] = Resting]
  /\ UNCHANGED <<memory, space, files, cycle, last>>

\* Anything may raise on the way: authority lost, a mismatch, an I/O error.  With
\* no preimage kept yet there is nothing to undo.
Raise(a) ==
  /\ step[a].at \in {"check", "ready", "write", "unlink", "final", "commit"}
  /\ \/ AtStep(a, "check") /\ Goto(a, "failed", step[a].g, 0)
     \/ Goto(a, "undo", step[a].g, Len(Plan(step[a].g)))
  /\ UNCHANGED <<vars, memory, grant, space, files, cycle, last>>

\* Restore in reverse order, then compare every file with what was kept.
Undo(a) ==
  /\ AtStep(a, "undo")
  /\ IF step[a].i > 0
       THEN /\ Op(a).file \notin linked
            /\ disk' = [disk EXCEPT ![Op(a).file] = Op(a).pre]
            /\ Goto(a, "undo", step[a].g, step[a].i - 1)
       ELSE /\ UNCHANGED disk
            /\ Goto(a, IF ShowsPre(Plan(step[a].g)) THEN "failed" ELSE "condemn", step[a].g, 0)
  /\ UNCHANGED <<vars, memory, grant, space, linked, cycle, last>>

\* Fault: a rollback that stopped half way still counts as one.
BadUndoRaises(a) ==
  /\ AtStep(a, "undo")
  /\ Goto(a, "failed", step[a].g, 0)
  /\ UNCHANGED <<vars, memory, grant, space, files, cycle, last>>
UndoRaises(a) ==
  /\ AtStep(a, "undo")
  /\ Goto(a, "condemn", step[a].g, 0)
  /\ UNCHANGED <<vars, memory, grant, space, files, cycle, last>>

Condemn(a) ==
  /\ AtStep(a, "condemn")
  /\ space' = "INTEGRITY_BLOCKED"
  /\ Goto(a, "blocked", step[a].g, 0)
  /\ UNCHANGED <<vars, memory, grant, files, cycle, last>>

\* _terminalize_failure
Terminalize(a) ==
  /\ step[a].at \in {"failed", "blocked"}
  /\ SettleGrant(step[a].g, IF AtStep(a, "failed") THEN "FAILED" ELSE "INTEGRITY_BLOCKED")
  /\ step' = [step EXCEPT ![a] = Resting]
  /\ UNCHANGED <<vars, memory, space, files, cycle, last>>
-----------------------------------------------------------------------------
(* The runtime cycle. *)

CycleAt(at) == cycle.at = at
CycleTo(at, todo) == cycle' = Cycle(at, todo, NoGrant, "none")
Stored == <<memory, grant, space, files, step, last>>

\* Supervisor.reconcile begins by selecting the running tasks of stale workers.
BeginCycle ==
  /\ cycle = NoCycle /\ \A a \in Appliers : step[a] = Resting
  /\ \E d \in Lags :
       \/ StaleSelect(Supervisor, d)
       \/ UNCHANGED vars /\ \A t \in Tasks : state[t] = "RUNNING" => Fresh(owner[t], d)
  /\ CycleTo("reconcile", {})
  /\ UNCHANGED Stored

ReconcileStale ==
  /\ CycleAt("reconcile")
  /\ StaleWrite(Supervisor) \/ \E t \in Tasks : StaleRead(Supervisor, t)
  /\ UNCHANGED <<Stored, cycle>>

\* expired_lease_tasks, then reclaim_expired for each, which looks again.
SelectExpired ==
  /\ CycleAt("reconcile") /\ pending[Supervisor] = Idle
  /\ \E d \in Lags : CycleTo("reclaim", {t \in Tasks : state[t] \in OnLease /\ ~Live(t, d)})
  /\ UNCHANGED <<vars, Stored>>

Reclaim(t) ==
  /\ CycleAt("reclaim") /\ t \in cycle.todo
  /\ \E d \in Lags : IF state[t] \in OnLease /\ ~Live(t, d) THEN ReclaimExpired(t, d)
                                                         ELSE UNCHANGED vars
  /\ CycleTo("reclaim", cycle.todo \ {t})
  /\ UNCHANGED Stored

Reconciled ==
  /\ CycleAt("reclaim") /\ cycle.todo = {}
  /\ CycleTo("recover", IF space = "AVAILABLE" THEN Applying ELSE {})
  /\ UNCHANGED <<vars, Stored>>

\* recover(g), and what _recover does when it raises BlockedError: the next grant.
RecoverRead(g) ==
  /\ CycleAt("recover") /\ g \in cycle.todo
  /\ LET todo == cycle.todo \ {g}
         p == Plan(g)
     IN  IF grant[g].st # "APPLYING" \/ space # "AVAILABLE" \/ ~Readable(p)
           THEN CycleTo("recover", todo)
           ELSE cycle' = CASE ShowsPre(p) -> Cycle("settle", todo, g, "pre")
                           [] ~ShowsPre(p) /\ ShowsPost(p) -> Cycle("settle", todo, g, "post")
                           [] OTHER -> Cycle("condemn", todo, g, "mixed")
  /\ UNCHANGED <<vars, Stored>>

RecoverBlock ==
  /\ CycleAt("condemn")
  /\ space' = "INTEGRITY_BLOCKED"
  /\ cycle' = [cycle EXCEPT !.at = "settle"]
  /\ UNCHANGED <<vars, memory, grant, files, step, last>>

\* Fault: where nothing was written there is nothing to settle.
BadRecoverWrite ==
  /\ CycleAt("settle")
  /\ \/ /\ cycle.saw = "pre"
        /\ UNCHANGED <<vars, space, grant>>
     \/ /\ cycle.saw = "mixed"
        /\ SettleGrant(cycle.g, "INTEGRITY_BLOCKED")
        /\ UNCHANGED <<vars, space>>
     \/ /\ cycle.saw = "post" /\ state[grant[cycle.g].task] = "RUNNING"
        /\ SettleGrant(cycle.g, "APPLIED") /\ SendToReview(grant[cycle.g].task)
        /\ UNCHANGED space
     \/ /\ cycle.saw = "post" /\ state[grant[cycle.g].task] # "RUNNING"
        /\ space' = "INTEGRITY_BLOCKED"
        /\ UNCHANGED <<vars, grant>>
  /\ CycleTo("recover", cycle.todo)
  /\ UNCHANGED <<memory, files, step, last>>
RecoverWrite ==
  /\ CycleAt("settle")
  /\ \/ /\ cycle.saw # "post"
        /\ SettleGrant(cycle.g, IF cycle.saw = "pre" THEN "FAILED" ELSE "INTEGRITY_BLOCKED")
        /\ UNCHANGED <<vars, space>>
     \/ /\ cycle.saw = "post" /\ state[grant[cycle.g].task] = "RUNNING"
        /\ SettleGrant(cycle.g, "APPLIED") /\ SendToReview(grant[cycle.g].task)
        /\ UNCHANGED space
     \/ /\ cycle.saw = "post" /\ state[grant[cycle.g].task] # "RUNNING"
        /\ space' = "INTEGRITY_BLOCKED"
        /\ UNCHANGED <<vars, grant>>
  /\ CycleTo("recover", cycle.todo)
  /\ UNCHANGED <<memory, files, step, last>>

\* Fault: routing does not wait for recovery.
BadRecovered == CycleAt("recover") /\ CycleTo("route", {}) /\ UNCHANGED <<vars, Stored>>
Recovered ==
  /\ CycleAt("recover") /\ cycle.todo = {}
  /\ CycleTo("route", {})
  /\ UNCHANGED <<vars, Stored>>

Eligible(t, w, d) == w \in bound /\ Claimable(t, w, d)
Route(t, w, d) ==
  /\ CycleAt("route") /\ Unlocked /\ Eligible(t, w, d) /\ Claim(t, w, d)
  /\ dispatched' = dispatched \cup {t}
  /\ UNCHANGED <<bound, grant, space, files, step, cycle, last>>
RouteNobody(t, d) ==
  /\ CycleAt("route") /\ Unlocked /\ \A w \in Workers : ~Eligible(t, w, d)
  /\ state[t] # "WAITING_CAPACITY" /\ MarkWaitingCapacity(t)
  /\ UNCHANGED <<Stored, cycle>>

\* The cycle is over, or one of its stages raised.
EndCycle ==
  /\ CycleAt("route")
  /\ cycle' = NoCycle
  /\ UNCHANGED <<vars, Stored>>
AbortCycle ==
  /\ cycle.at \in {"reconcile", "reclaim", "recover", "condemn", "settle"}
  /\ cycle' = NoCycle
  /\ IF pending[Supervisor] = Idle THEN UNCHANGED vars ELSE Crash(Supervisor)
  /\ UNCHANGED Stored

Crashes ==
  /\ bound' = {} /\ dispatched' = {}
  /\ step' = [a \in Appliers |-> Resting] /\ cycle' = NoCycle
  /\ pending' = [c \in Clients |-> Idle]
  /\ UNCHANGED <<taskVars, workerVars, grant, space, files, last>>

XTick ==
  /\ Tick
  /\ grant' = [g \in Grants |-> IF grant[g].left <= -MaxLag THEN grant[g] ELSE [grant[g] EXCEPT !.left = @ - 1]]
  /\ UNCHANGED <<memory, space, files, step, cycle, last>>
-----------------------------------------------------------------------------
WorkerSide ==
  \/ \E t \in Tasks : WorkerAnswers(t) \/ \E g \in Grants : IssueGrant(g, t)
  \/ FailureLands
  \/ \E w \in Workers, k \in Capacities : WorkerJoins(w, k) \/ WorkerBeats(w, k)
  \/ \E t \in Tasks : CreateTask(t) /\ UNCHANGED <<Stored, cycle>>

Progress(a) ==
  \/ Check(a) \/ Authorize(a) \/ Write(a) \/ Unlink(a) \/ Verify(a) \/ \E d \in Lags : Commit(a, d)
  \/ Raise(a) \/ Undo(a) \/ UndoRaises(a) \/ Condemn(a) \/ Terminalize(a)

ApplyStep(a) ==
  \/ Progress(a)
  \/ \E g \in Grants, d \in Lags : Expire(a, g, d) \/ \E p \in Plans : Consume(a, g, p, d)

RuntimeStep ==
  \/ BeginCycle \/ ReconcileStale \/ SelectExpired \/ Reconciled
  \/ RecoverBlock \/ RecoverWrite \/ Recovered \/ EndCycle
  \/ \E g \in Grants : RecoverRead(g)
  \/ \E t \in Tasks : Reclaim(t)
  \/ \E t \in Tasks, d \in Lags : RouteNobody(t, d) \/ \E w \in Workers : Route(t, w, d)

XNext ==
  \/ XTick \/ WorkerSide \/ RuntimeStep \/ AbortCycle \/ Crashes
  \/ \E a \in Appliers : ApplyStep(a)

XSpec == XInit /\ [][XNext]_xvars

\* Calls under way go on, and the service runs cycle after cycle.
XFairSpec ==
  /\ XSpec
  /\ \A a \in Appliers : WF_xvars(Progress(a))
  /\ WF_xvars(RuntimeStep)
-----------------------------------------------------------------------------
(* Properties. *)

\* The ledger and the files agree about the grant consumed last, wherever the
\* process died: applied means all new files, failed means all old ones, under way
\* means each file is one or the other, and anything else blocks the workspace.
LedgerMatchesDisk ==
  IF last = NoGrant THEN disk = FirstDisk
  ELSE LET p == Plan(last)
           s == grant[last].st
       IN  /\ s = "APPLIED" => ShowsPost(p)
           /\ s = "FAILED" => ShowsPre(p)
           /\ s = "APPLYING" => \A i \in 1..Len(p) : disk[p[i].file] \in {p[i].pre, p[i].post}
           /\ s = "INTEGRITY_BLOCKED" => space = "INTEGRITY_BLOCKED"

\* A task under review has an evidence row a worker delivered, or an applied grant
\* of the very lease it is reviewed for, also when recovery found the files written.
ReviewHasEvidence ==
  \A t \in Tasks : state[t] = "REVIEW_PENDING" =>
    \/ rows[t] # {}
    \/ \E g \in Grants : grant[g].st = "APPLIED" /\ grant[g].task = t /\ grant[g].lease = lease[t]

\* Once crashes and failing cycles stop, no transaction stays open: it is settled,
\* or its workspace is blocked, or a file was left with its temporary link.
TransactionsSettle ==
  <>[][~(Crashes \/ AbortCycle)]_xvars =>
    \A g \in Grants : grant[g].st = "APPLYING" ~>
      grant[g].st # "APPLYING" \/ space = "INTEGRITY_BLOCKED" \/ linked # {}
=============================================================================
