---------------------------- MODULE ServiceHost ----------------------------
(***************************************************************************)
(* AF-07: the hosts of the autonomy service.  A host takes a kernel lock   *)
(* in the runtime root, runs AutonomyRuntime.run_once in a loop, and       *)
(* reports what it does in its row of af07_service_health.  A cycle starts *)
(* with ingestion (Ingestion: the host is one of its ingestors); what the  *)
(* other stages do is in TaskStore, Execution and ExternalGateway, here    *)
(* they succeed or fail.  Runtimes that use the database without a host,   *)
(* and so without the lock, are the ingestors of Ingestion alone.          *)
(***************************************************************************)
EXTENDS Ingestion

CONSTANTS
    Hosts,          \* processes that run the service, one after the other
    MaxFailures,    \* max_consecutive_transient_failures
    MaxCycles,      \* bound of the model: cycle_count saturates here
    NoHost

ASSUME ServiceAssumption ==
    /\ Hosts = Ingestors /\ NoHost \notin Hosts
    /\ MaxFailures \in Nat \ {0} /\ MaxCycles \in Nat

VARIABLES
    lock,   \* who holds the lock on af07.service.lock
    health, \* the row of the service
    host    \* what each host has in memory

svars == <<ivars, lock, health, host>>

Failed == {"BLOCKED", "INTEGRITY_BLOCKED", "CRASHED"}
Terminal == Failed \cup {"STOPPED"}
Statuses ==
    Terminal \cup {"STARTING", "RUNNING", "IDLE", "BACKOFF", "STOPPING"}
NoHealth == [status |-> "NONE", owner |-> NoHost, cycles |-> 0]
Places == Failed \cup {"off", "starting", "loop", "cycle", "ingested", "done",
    "BACKOFF", "stopping", "leaving"}
Off == [pc |-> "off", failures |-> 0]

SInit ==
    /\ IInit
    /\ lock = NoHost /\ health = NoHealth /\ host = [h \in Hosts |-> Off]

At(h, pc) == host[h].pc = pc
To(h, pc) == host' = [host EXCEPT ![h].pc = pc]

\* Mutant of Cycles: a new instance starts counting anew.
BadCycles(status) == IF status = "STARTING" THEN 0 ELSE health.cycles
\* The count goes on from whatever row is there.
Cycles(status) == health.cycles
\* _health: the row is replaced, with the instance that writes it.
Report(h, status) ==
    health' = [status |-> status, owner |-> h, cycles |-> Cycles(status)]

----------------------------------------------------------------------------
(* Start and stop. *)

\* Mutant of Acquire: the file is opened and not locked.
BadAcquire(h) ==
    /\ At(h, "off")
    /\ lock' = h /\ host' = [host EXCEPT ![h] = [pc |-> "starting", failures |-> 0]]
    /\ UNCHANGED <<ivars, health>>
\* A second host is refused (BLOCKED_SINGLE_INSTANCE) and exits.
Acquire(h) ==
    /\ At(h, "off") /\ lock = NoHost
    /\ lock' = h /\ host' = [host EXCEPT ![h] = [pc |-> "starting", failures |-> 0]]
    /\ UNCHANGED <<ivars, health>>
\* The runtime is built, the database passes its integrity check.
Started(h) ==
    /\ At(h, "starting")
    /\ To(h, "loop") /\ Report(h, "STARTING")
    /\ UNCHANGED <<ivars, lock>>
\* It is not, or the row cannot be written: out of run, and nothing is reported.
StartFails(h) ==
    /\ At(h, "starting")
    /\ To(h, "leaving")
    /\ UNCHANGED <<ivars, lock, health>>
\* stop_event is set, or the cycles asked for are done.
Stopping(h) ==
    /\ At(h, "loop")
    /\ To(h, "stopping") /\ Report(h, "STOPPING")
    /\ UNCHANGED <<ivars, lock>>
Stopped(h) ==
    /\ At(h, "stopping")
    /\ To(h, "leaving") /\ Report(h, "STOPPED")
    /\ UNCHANGED <<ivars, lock>>
\* finally: the store is closed, the lock released.
Release(h) ==
    /\ At(h, "leaving")
    /\ To(h, "off") /\ lock' = NoHost
    /\ UNCHANGED <<ivars, health>>
\* The process is killed: the kernel releases the lock, the row stays.
CrashHost(h) ==
    /\ ~At(h, "off")
    /\ host' = [host EXCEPT ![h] = Off] /\ lock' = NoHost
    /\ ing' = [ing EXCEPT ![h] = Idle]
    /\ UNCHANGED <<queue, store, health>>

----------------------------------------------------------------------------
(* A cycle. *)

\* What the handlers of run make of an error.
Caught(h, error) ==
    host' = [host EXCEPT ![h] =
        IF error # "TRANSIENT"
        THEN [@ EXCEPT !.pc = IF error = "FATAL" THEN "CRASHED" ELSE error]
        ELSE [pc |-> IF @.failures < MaxFailures THEN "BACKOFF" ELSE "CRASHED",
              failures |-> @.failures + 1]]

BeginCycle(h) ==
    /\ At(h, "loop")
    /\ To(h, "cycle") /\ Report(h, "RUNNING")
    /\ UNCHANGED <<ivars, lock>>
\* The stages before ingestion, after it, or a row inside the try block fail.
StageFails(h, error) ==
    /\ \/ At(h, "loop") /\ error \in {"TRANSIENT", "FATAL"}
       \/ At(h, "cycle") /\ ing[h] = Idle
       \/ At(h, "ingested")
       \/ At(h, "done") /\ error \in {"TRANSIENT", "FATAL"}
    /\ Caught(h, error)
    /\ UNCHANGED <<ivars, lock, health>>
CycleReads(h) == At(h, "cycle") /\ ReadFile(h) /\ UNCHANGED <<lock, health, host>>
CycleIngests(h) == At(h, "cycle") /\ IngestStep(h) /\ UNCHANGED <<lock, health, host>>
Ingested(h) ==
    /\ At(h, "cycle") /\ ing[h].pc = "OK" /\ Rest(h)
    /\ To(h, "ingested")
    /\ UNCHANGED <<lock, health>>
IngestFails(h) ==
    /\ At(h, "cycle") /\ ing[h].pc # "OK" /\ Rest(h)
    /\ Caught(h, ing[h].pc)
    /\ UNCHANGED <<lock, health>>
CycleDone(h) ==
    /\ At(h, "ingested")
    /\ host' = [host EXCEPT ![h] = [pc |-> "done", failures |-> 0]]
    /\ UNCHANGED <<ivars, lock, health>>
ReportIdle(h) ==
    /\ At(h, "done")
    /\ To(h, "loop")
    /\ health' = [status |-> "IDLE", owner |-> h,
                  cycles |-> IF Cycles("IDLE") < MaxCycles THEN Cycles("IDLE") + 1
                             ELSE MaxCycles]
    /\ UNCHANGED <<ivars, lock>>

ReportBackoff(h) ==
    /\ At(h, "BACKOFF")
    /\ To(h, "loop") /\ Report(h, "BACKOFF")
    /\ UNCHANGED <<ivars, lock>>
\* Mutant of ReportEnd: after a terminal report the loop goes on.
BadReportEnd(h) ==
    /\ host[h].pc \in Failed
    /\ To(h, "loop") /\ Report(h, host[h].pc)
    /\ UNCHANGED <<ivars, lock>>
ReportEnd(h) ==
    /\ host[h].pc \in Failed
    /\ To(h, "leaving") /\ Report(h, host[h].pc)
    /\ UNCHANGED <<ivars, lock>>
\* A row written outside the try block fails: the exception leaves run.
ReportLost(h) ==
    /\ host[h].pc \in Failed \cup {"BACKOFF", "loop", "stopping"}
    /\ To(h, "leaving")
    /\ UNCHANGED <<ivars, lock, health>>

----------------------------------------------------------------------------

Errors == {"BLOCKED", "INTEGRITY_BLOCKED", "TRANSIENT", "FATAL"}
HostStep(h) ==
    \/ Acquire(h) \/ Started(h) \/ StartFails(h) \/ Stopping(h) \/ Stopped(h)
    \/ Release(h) \/ CrashHost(h)
    \/ BeginCycle(h) \/ (\E e \in Errors : StageFails(h, e))
    \/ CycleReads(h) \/ CycleIngests(h) \/ Ingested(h) \/ IngestFails(h)
    \/ CycleDone(h) \/ ReportIdle(h) \/ ReportBackoff(h) \/ ReportEnd(h)
    \/ ReportLost(h)

SNext ==
    \/ FileStep /\ UNCHANGED <<lock, health, host>>
    \/ \E h \in Hosts : HostStep(h)

SSpec == SInit /\ [][SNext]_svars

\* Whatever stops a host, another one is started, and what disturbs a cycle (a
\* locked database, an unreachable remote, a kill) does not do so every time.
Some(A(_)) == \E h \in Hosts : At(h, "cycle") /\ A(h) /\ UNCHANGED <<lock, health, host>>
SFairSpec ==
    /\ SSpec
    /\ WF_svars(\E h \in Hosts : HostStep(h))
    /\ SF_svars(\E h \in Hosts : Started(h)) /\ SF_svars(\E h \in Hosts : BeginCycle(h))
    /\ SF_svars(Some(ReadFile)) /\ SF_svars(Some(Compare)) /\ SF_svars(Some(CountRows))
    /\ SF_svars(Some(Accept)) /\ SF_svars(Some(Bind))

----------------------------------------------------------------------------
(* Properties. *)

\* Shapes of the variables; a host never counts more transient failures in a
\* row than the limit and the one that ends it (AutonomyServiceHost.run).
STypeOK ==
    /\ lock \in Hosts \cup {NoHost}
    /\ health \in [status: Statuses \cup {"NONE"}, owner: Hosts \cup {NoHost},
                   cycles: 0..MaxCycles]
    /\ host \in [Hosts -> [pc: Places, failures: 0..(MaxFailures + 1)]]

\* From its first report until it leaves the loop a host is alone, the row is
\* its own and says that it is active, RUNNING while a cycle runs: what
\* read_status shows is never the row of an earlier or of another instance.
RowIsLiveHosts ==
    \A h \in Hosts : ~(host[h].pc \in {"off", "starting", "leaving"}) =>
        /\ lock = h /\ health.owner = h
        /\ health.status \in Statuses \ Terminal
        /\ At(h, "cycle") => health.status = "RUNNING"

\* AF07_OPERATOR_RUNBOOK.md:25 and :27 as steps: only the holder of the lock
\* changes the row, what was reported as ended is only followed by the start
\* of an instance, and the cycle count survives it.
HealthHistory ==
    [][health' # health =>
        /\ lock = health'.owner
        /\ health.status \in Terminal => health'.status = "STARTING"
        /\ health.cycles <= health'.cycles]_svars

\* The file is whole, nothing in it is to be refused, and no line of it was
\* committed before its newline came: its row differs from the file for ever.
Drainable ==
    /\ ~altered /\ writing = NoLine /\ Torn \notin Elements(file)
    /\ IsPrefixOf(rows, file)
    /\ \A l \in Elements(file) : l.verified
    /\ \A l, m \in Elements(file) : l.id = m.id => l = m
\* Then every line becomes a row: no crash, blocked cycle or failed statement
\* leaves behind what keeps later cycles from going on.
QueueDrains == <>[]Drainable => []<>(rows = file)

\* tests/test_autonomy_foundation_04.py:87, "valid authenticated directive
\* creates deterministic task": when the queue holds a directive for good and
\* nobody tampers with it, a task comes of it.
Queued == file # <<>> /\ ~altered /\ writing = NoLine /\ Torn \notin Elements(file)
QueuedBecomesTask == <>[]Queued => <>(tasks # {})

=============================================================================
