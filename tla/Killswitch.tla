----------------------------- MODULE Killswitch -----------------------------
(***************************************************************************)
(* The durable killswitch (watchdog.py).  Each process holds an instance:  *)
(* a copy of the state, read from the file once, when it is constructed.   *)
(* Every change is made in memory first; then _persist truncates the file  *)
(* and writes it again, and only then an event is chained to the audit     *)
(* trail.  A process may be killed between any two of these steps.         *)
(***************************************************************************)
EXTENDS Integers

CONSTANTS
    Procs,        \* processes that hold an instance
    MaxIncidents, \* bound of the model: triggers
    Blank         \* the content of a file that was truncated or torn

ASSUME KillswitchAssumption == MaxIncidents \in Nat

VARIABLES
    stateFile, \* what the state file parses to, or Blank
    copy,      \* the state of each instance
    todo,      \* what an instance still has to do in the call it executes
    trail,     \* the incident audit trail
    raised,    \* history: the incidents raised so far
    cured,     \* history: the incidents whose root cause was declared resolved
    stopped    \* history: the incident last written to the file and not lifted since

kvars == <<stateFile, copy, todo, trail, raised, cured, stopped>>

KillswitchState == {"DISARMED", "ARMED", "TRIGGERED", "RECOVERY_PENDING"}
NoIncident == 0
\* _load without a readable file.
Fresh == [st |-> "ARMED", inc |-> NoIncident, rootOk |-> FALSE]
Records == [st : KillswitchState, inc : 0 .. MaxIncidents, rootOk : BOOLEAN]
Gone == [st |-> "down", inc |-> NoIncident, rootOk |-> FALSE]
Event(i, from, to) == [inc |-> i, from |-> from, to |-> to]
Quiet == [pc |-> "idle", ev |-> Event(NoIncident, "", "")]

KInit ==
    /\ stateFile = Blank /\ copy = [p \in Procs |-> Gone] /\ todo = [p \in Procs |-> Quiet]
    /\ trail = {} /\ raised = 0 /\ cured = {} /\ stopped = NoIncident

Free(p) == copy[p] # Gone /\ todo[p].pc = "idle"
\* is_execution_allowed: by the memory of the instance.
Allowed(p) == copy[p].st \in {"DISARMED", "ARMED"}

Construct(p) ==
    /\ copy[p] = Gone
    /\ copy' = [copy EXCEPT ![p] = IF stateFile = Blank THEN Fresh ELSE stateFile]
    /\ UNCHANGED <<stateFile, todo, trail, raised, cured, stopped>>
KillProc(p) ==
    /\ copy[p] # Gone
    /\ copy' = [copy EXCEPT ![p] = Gone] /\ todo' = [todo EXCEPT ![p] = Quiet]
    /\ UNCHANGED <<stateFile, trail, raised, cured, stopped>>

----------------------------------------------------------------------------
(* _persist and append_event, step by step. *)

\* A call has changed the memory of p to rec; ev is the event to be chained.
Change(p, rec, ev) ==
    /\ copy' = [copy EXCEPT ![p] = rec]
    /\ todo' = [todo EXCEPT ![p] = [pc |-> "open", ev |-> ev]]
GoOn(p, from, to) ==
    /\ todo[p].pc = from
    /\ todo' = IF to = "idle" THEN [todo EXCEPT ![p] = Quiet] ELSE [todo EXCEPT ![p].pc = to]

\* open(..., "w") truncates the file.
TruncateState(p) ==
    /\ GoOn(p, "open", "write") /\ stateFile' = Blank
    /\ UNCHANGED <<copy, trail, raised, cured, stopped>>
Write(p) ==
    /\ GoOn(p, "write", "append") /\ stateFile' = copy[p]
    /\ stopped' = IF copy[p].st = "TRIGGERED" THEN copy[p].inc ELSE stopped
    /\ UNCHANGED <<copy, trail, raised, cured>>
\* append_event.  That it is chained to the last event it could read matters to
\* verify_integrity alone; here the trail is the set of the events in it.
AppendEvent(p) ==
    /\ GoOn(p, "append", "idle") /\ trail' = trail \cup {todo[p].ev}
    /\ UNCHANGED <<stateFile, copy, raised, cured, stopped>>

----------------------------------------------------------------------------
(* The calls. *)

\* From any state; nothing of an earlier incident or recovery is left.
TriggerTo(p) == [st |-> "TRIGGERED", inc |-> raised + 1, rootOk |-> FALSE]
Trigger(p) ==
    /\ Free(p) /\ raised < MaxIncidents
    /\ raised' = raised + 1
    /\ Change(p, TriggerTo(p), Event(raised + 1, copy[p].st, "TRIGGERED"))
    /\ UNCHANGED <<stateFile, trail, cured, stopped>>

\* enter_recovery_pending(root_cause_resolved = TRUE); otherwise it is refused.
EnterRecovery(p) ==
    /\ Free(p) /\ copy[p].st = "TRIGGERED"
    /\ Change(p, [copy[p] EXCEPT !.st = "RECOVERY_PENDING", !.rootOk = TRUE],
              Event(copy[p].inc, "TRIGGERED", "RECOVERY_PENDING"))
    /\ cured' = cured \cup {copy[p].inc}
    /\ UNCHANGED <<stateFile, trail, raised, stopped>>

\* What a caller can pass: the approval may name an incident, or none.
Approvals ==
    [state : {"APPROVED", "REQUESTED"}, names : 0 .. MaxIncidents, consumed : BOOLEAN]
\* Mutant of Resumable: the approval is taken for the incident it names itself.
BadResumable(p, i, a, revalidated) ==
    /\ copy[p].st \in {"TRIGGERED", "RECOVERY_PENDING"}
    /\ a.state = "APPROVED" /\ a.names \in {NoIncident, i} /\ ~ a.consumed /\ revalidated
\* execute_controlled_resume: its checks, in order.
Resumable(p, i, a, revalidated) ==
    /\ copy[p].st = "RECOVERY_PENDING" /\ copy[p].inc = i /\ copy[p].rootOk
    /\ a.state = "APPROVED" /\ a.names \in {NoIncident, i} /\ ~ a.consumed
    /\ revalidated
\* Mutant of Resume: the incident is cleared before the event names it.
BadResume(p, i, a, revalidated) ==
    /\ Free(p) /\ Resumable(p, i, a, revalidated)
    /\ Change(p, [copy[p] EXCEPT !.st = "ARMED", !.inc = NoIncident],
              Event(NoIncident, "RECOVERY_PENDING", "ARMED"))
    /\ stopped' = NoIncident
    /\ UNCHANGED <<stateFile, trail, raised, cured>>
Resume(p, i, a, revalidated) ==
    /\ Free(p) /\ Resumable(p, i, a, revalidated)
    /\ Change(p, [copy[p] EXCEPT !.st = "ARMED", !.inc = NoIncident],
              Event(i, "RECOVERY_PENDING", "ARMED"))
    /\ stopped' = NoIncident
    /\ UNCHANGED <<stateFile, trail, raised, cured>>

KNext ==
    \E p \in Procs :
        \/ Construct(p) \/ KillProc(p) \/ TruncateState(p) \/ Write(p) \/ AppendEvent(p)
        \/ Trigger(p) \/ EnterRecovery(p)
        \/ \E i \in 1 .. MaxIncidents, a \in Approvals, v \in BOOLEAN : Resume(p, i, a, v)

KSpec == KInit /\ [][KNext]_kvars

----------------------------------------------------------------------------
(* Properties. *)

KTypeOK ==
    /\ stateFile \in Records \cup {Blank}
    /\ copy \in [Procs -> Records \cup {Gone}]
    /\ \A p \in Procs : todo[p].pc \in {"idle", "open", "write", "append"}
    /\ raised \in 0 .. MaxIncidents
    /\ cured \subseteq 1 .. MaxIncidents
    /\ \A e \in trail : e.inc \in 1 .. MaxIncidents

\* A stopped instance that is still alive lets executions go on only after
\* the root cause of the very incident that stopped it was declared resolved:
\* a trigger in the middle of a recovery is not lifted by that recovery
\* (trigger, enter_recovery_pending, execute_controlled_resume together).
ResumeIsEarned ==
    [][\A p \in Procs :
        (copy[p] # Gone /\ ~ Allowed(p) /\ copy[p]' # Gone /\ Allowed(p)')
            => copy[p].inc \in cured]_kvars

\* What watchdog.py:124 says of the engine ("Survives restart ... blocks
\* execution when triggered"): while the last incident that reached the file
\* was not lifted by a controlled resume, no running instance allows execution.
\* Stated for one process; it does not hold (run killswitch_restart).
StopSurvivesRestart ==
    stopped # NoIncident => \A p \in Procs : copy[p] # Gone => ~ Allowed(p)
=============================================================================
