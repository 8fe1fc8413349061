--------------------------- MODULE ObserverEngine ---------------------------
(***************************************************************************)
(* The observer: main.py takes the single-instance lock (lock_manager.py)  *)
(* and runs the sweeps of ControlPlaneEngine (engine.py).  A sweep writes  *)
(* one state file per project and then the global status, each by          *)
(* truncating the file in place, and at last may publish the directory.    *)
(* Instances are started, refused, interrupted, fail or are killed at any  *)
(* step; the kernel frees the lock of a dead one.  (The health file, which *)
(* nothing else depends on, is left out.)                                  *)
(***************************************************************************)
EXTENDS Integers, FileRecords

CONSTANTS
    Instances, Projects,
    Observed, \* the statuses the projects are found in
    Torn      \* the content of a file between truncation and write

ASSUME EngineAssumption ==
    /\ Nobody \notin Instances /\ Observed \subseteq {"STABLE", "STALE", "BLOCKED"}
    /\ Nobody \notin Observed /\ Torn \notin Observed
\* The health of the whole, from the worst project.
Overall(states) ==
    IF \E p \in Projects : states[p] = "BLOCKED" THEN "BLOCKED"
    ELSE IF \E p \in Projects : states[p] = "STALE" THEN "DEGRADED_STALE" ELSE "STABLE"

VARIABLES
    lock,      \* who holds the kernel lock on control_plane.lock
    pid,       \* the pid file
    project,   \* the state file of each project
    global,    \* global_status.json
    published, \* what was last pushed: the state files and the global status
    inst       \* what each instance has in memory

evars == <<lock, pid, project, global, published, inst>>

Unseen == [p \in Projects |-> Nobody]
\* seen: the statuses seen in this sweep so far; named: the pid file was written.
Off == [pc |-> "off", seen |-> Unseen, named |-> FALSE]
EInit ==
    /\ lock = Nobody /\ pid = Nobody /\ project = Unseen /\ global = Nobody
    /\ published = Nobody /\ inst = [i \in Instances |-> Off]

At(i, pc) == inst[i].pc = pc
Enter(i, pc) == inst' = [inst EXCEPT ![i].pc = pc]
Sweeping == {"projects", "torn", "global", "publish"}

----------------------------------------------------------------------------
(* SingleInstanceLock and main. *)

\* Mutant of MayLock: the file is opened and never locked.
BadMayLock == TRUE
MayLock == lock = Nobody
Acquire(i) ==
    /\ At(i, "off") /\ MayLock
    /\ lock' = i /\ Enter(i, "locked")
    /\ UNCHANGED <<pid, project, global, published>>
\* The pid file is written under the lock; an error there is ignored.
WritePid(i, ok) ==
    /\ At(i, "locked")
    /\ pid' = IF ok THEN i ELSE pid
    /\ inst' = [inst EXCEPT ![i].pc = "loop", ![i].named = ok]
    /\ UNCHANGED <<lock, project, global, published>>
\* A second instance only reads the pid file, and exits without release().
RefusedLock(i) == At(i, "off") /\ ~ MayLock /\ UNCHANGED evars
\* release(): first the lock ...
Unlock(i) ==
    /\ At(i, "leave")
    /\ lock' = (IF lock = i THEN Nobody ELSE lock) /\ Enter(i, "unlocked")
    /\ UNCHANGED <<pid, project, global, published>>
\* ... then the pid file, whoever has written it meanwhile.
Unlink(i) ==
    /\ At(i, "unlocked")
    /\ pid' = Nobody /\ inst' = [inst EXCEPT ![i] = Off]
    /\ UNCHANGED <<lock, project, global, published>>
\* Ctrl-C in run_continuous, --once after its sweep, or a sweep that raises.
Leave(i) ==
    /\ inst[i].pc \in Sweeping \cup {"loop"}
    /\ Enter(i, "leave") /\ UNCHANGED <<lock, pid, project, global, published>>
KillInstance(i) ==
    /\ ~ At(i, "off")
    /\ lock' = IF lock = i THEN Nobody ELSE lock
    /\ inst' = [inst EXCEPT ![i] = Off]
    /\ UNCHANGED <<pid, project, global, published>>

----------------------------------------------------------------------------
(* run_sweep. *)

BeginSweep(i) ==
    /\ At(i, "loop")
    /\ inst' = [inst EXCEPT ![i].pc = "projects", ![i].seen = Unseen]
    /\ UNCHANGED <<lock, pid, project, global, published>>
\* A project is observed and evaluated (st), and its file is opened.
Observe(i, p, st) ==
    /\ At(i, "projects") /\ inst[i].seen[p] = Nobody
    /\ inst' = [inst EXCEPT ![i].pc = "torn", ![i].seen[p] = st]
    /\ project' = [project EXCEPT ![p] = Torn]
    /\ UNCHANGED <<lock, pid, global, published>>
WriteProject(i) ==
    \E p \in Projects :
        /\ At(i, "torn") /\ inst[i].seen[p] # Nobody /\ project[p] = Torn
        /\ project' = [project EXCEPT ![p] = inst[i].seen[p]] /\ Enter(i, "projects")
        /\ UNCHANGED <<lock, pid, global, published>>
\* All projects are done: the global status is opened and then written.
OpenGlobal(i) ==
    /\ At(i, "projects") /\ (\A p \in Projects : inst[i].seen[p] # Nobody)
    /\ global' = Torn /\ Enter(i, "global")
    /\ UNCHANGED <<lock, pid, project, published>>
Summary(states) == [overall |-> Overall(states), states |-> states]
WriteGlobal(i) ==
    /\ At(i, "global")
    /\ global' = Summary(inst[i].seen) /\ Enter(i, "publish")
    /\ UNCHANGED <<lock, pid, project, published>>
\* Publication is on and due (a status changed, nothing was published yet, or
\* the interval is over), the branch is not protected, git succeeds: the
\* directory is pushed as it is now.
Publish(i) ==
    /\ At(i, "publish") /\ Enter(i, "loop")
    /\ published' = [project |-> project, global |-> global]
    /\ UNCHANGED <<lock, pid, project, global>>
\* It is off, not due, refused or fails.
NoPublish(i) ==
    /\ At(i, "publish")
    /\ Enter(i, "loop") /\ UNCHANGED <<lock, pid, project, global, published>>

ENext ==
    \E i \in Instances :
        \/ Acquire(i) \/ RefusedLock(i) \/ Unlock(i) \/ Unlink(i)
        \/ \E ok \in BOOLEAN : WritePid(i, ok)
        \/ Leave(i) \/ KillInstance(i)
        \/ BeginSweep(i) \/ \E p \in Projects, st \in Observed : Observe(i, p, st)
        \/ WriteProject(i) \/ OpenGlobal(i) \/ WriteGlobal(i)
        \/ Publish(i) \/ NoPublish(i)
ESpec == EInit /\ [][ENext]_evars

----------------------------------------------------------------------------
ETypeOK ==
    /\ lock \in Instances \cup {Nobody} /\ pid \in Instances \cup {Nobody}
    /\ project \in [Projects -> Observed \cup {Nobody, Torn}]
    /\ global \in {Nobody, Torn} \cup {Summary(s) : s \in [Projects -> Observed]}
    /\ \A i \in Instances :
        inst[i].pc \in Sweeping \cup {"off", "locked", "loop", "leave", "unlocked"}

\* What goes to the remote is one whole sweep: every project file complete, the
\* global status made from exactly those files and its health from the worst of
\* them.  It needs the lock, the order of the writes and that a killed sweep is
\* redone before anything is published.
PublishedIsWhole ==
    published # Nobody =>
        /\ published.project \in [Projects -> Observed]
        /\ published.global = Summary(published.project)

\* The pid file may be stale or missing (release deletes it after the lock is
\* free), but while an instance that wrote its pid runs, no rejection message
\* names another one: the file is written only under the lock.
PidNeverNamesAnother ==
    \A i \in Instances :
        (inst[i].named /\ inst[i].pc \in Sweeping \cup {"loop"}) => pid \in {i, Nobody}
=============================================================================
