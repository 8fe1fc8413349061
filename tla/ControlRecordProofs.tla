------------------------- MODULE ControlRecordProofs -------------------------
(***************************************************************************)
(* Theorems about the parts of the control plane that keep records of      *)
(* their own (watchdog.py, recovery_engine.py, queue_integrity.py,         *)
(* approval_engine.py, engine.py with lock_manager.py, and the             *)
(* certificate of github_governance_truth.py), each for any number of      *)
(* processes and records.                                                  *)
(***************************************************************************)
EXTENDS ControlRecords, TrustProofs, FiniteSetTheorems, TLAPS

(***************************************************************************)
(* The killswitch.  Wherever a recovery is pending, in the file or in the  *)
(* memory of a process, the root cause of its incident was resolved.  The  *)
(* file is part of it because the next process starts from the file.       *)
(***************************************************************************)
PendingIsCured(rec) == rec.st = "RECOVERY_PENDING" => rec.inc \in cured
KillswitchInv ==
    /\ DOMAIN copy = Procs
    /\ stateFile # Blank => PendingIsCured(stateFile)
    /\ \A p \in Procs : PendingIsCured(copy[p])

LEMMA KillswitchInvHolds == KSpec => []KillswitchInv
<1>1. KInit => KillswitchInv
  BY DEF KInit, KillswitchInv, PendingIsCured, Gone
<1>2. KillswitchInv /\ [KNext]_kvars => KillswitchInv'
  <2> SUFFICES ASSUME KillswitchInv, [KNext]_kvars PROVE KillswitchInv'
    OBVIOUS
  <2>1. CASE UNCHANGED kvars
    BY <2>1 DEF kvars, KillswitchInv, PendingIsCured
  <2>2. ASSUME NEW p \in Procs, Construct(p) PROVE KillswitchInv'
    BY <2>2 DEF Construct, KillswitchInv, PendingIsCured, Fresh
  <2>3. ASSUME NEW p \in Procs, KillProc(p) PROVE KillswitchInv'
    BY <2>3 DEF KillProc, KillswitchInv, PendingIsCured, Gone
  <2>4. ASSUME NEW p \in Procs, TruncateState(p) PROVE KillswitchInv'
    BY <2>4 DEF TruncateState, KillswitchInv, PendingIsCured
  <2>5. ASSUME NEW p \in Procs, Write(p) PROVE KillswitchInv'
    BY <2>5 DEF Write, KillswitchInv, PendingIsCured
  <2>6. ASSUME NEW p \in Procs, AppendEvent(p) PROVE KillswitchInv'
    BY <2>6 DEF AppendEvent, KillswitchInv, PendingIsCured
  <2>7. ASSUME NEW p \in Procs, Trigger(p) PROVE KillswitchInv'
    BY <2>7 DEF Trigger, Change, TriggerTo, KillswitchInv, PendingIsCured
  <2>8. ASSUME NEW p \in Procs, EnterRecovery(p) PROVE KillswitchInv'
    BY <2>8 DEF EnterRecovery, Change, KillswitchInv, PendingIsCured
  <2>9. ASSUME NEW p \in Procs, NEW i \in 1 .. MaxIncidents, NEW a \in Approvals,
               NEW v \in BOOLEAN, Resume(p, i, a, v)
        PROVE  KillswitchInv'
    BY <2>9 DEF Resume, Change, KillswitchInv, PendingIsCured
  <2> QED
    BY <2>1, <2>2, <2>3, <2>4, <2>5, <2>6, <2>7, <2>8, <2>9 DEF KNext
<1> QED
  BY <1>1, <1>2, PTL DEF KSpec

\* A live process that stopped executions allows them again only after the root
\* cause of the incident it stopped for was resolved: of all the calls of
\* watchdog.py only execute_controlled_resume leads there, and it starts from a
\* pending recovery.
THEOREM StopsAreLiftedByCure == KSpec => ResumeIsEarned
<1>1. KillswitchInv /\ [KNext]_kvars =>
        [\A p \in Procs :
            (copy[p] # Gone /\ ~ Allowed(p) /\ copy[p]' # Gone /\ Allowed(p)')
                => copy[p].inc \in cured]_kvars
  <2> SUFFICES ASSUME KillswitchInv, KNext, NEW p \in Procs,
                      copy[p] # Gone, ~ Allowed(p), copy[p]' # Gone, Allowed(p)'
               PROVE  copy[p].inc \in cured
    OBVIOUS
  <2>1. PICK q \in Procs :
          \/ Construct(q) \/ KillProc(q) \/ TruncateState(q) \/ Write(q) \/ AppendEvent(q)
          \/ Trigger(q) \/ EnterRecovery(q)
          \/ \E i \in 1 .. MaxIncidents, a \in Approvals, v \in BOOLEAN : Resume(q, i, a, v)
    BY DEF KNext
  <2>2. copy'[p] # copy[p]
    BY DEF Allowed
  <2>3. CASE Construct(q) \/ KillProc(q)
    BY <2>2, <2>3 DEF Construct, KillProc, KillswitchInv
  <2>4. CASE TruncateState(q) \/ Write(q) \/ AppendEvent(q)
    BY <2>2, <2>4 DEF TruncateState, Write, AppendEvent
  <2>5. CASE Trigger(q) \/ EnterRecovery(q)
    <3>1. q = p
      BY <2>2, <2>5 DEF Trigger, EnterRecovery, Change, KillswitchInv
    <3>2. copy'[p].st \in {"TRIGGERED", "RECOVERY_PENDING"}
      <4>1. CASE Trigger(q)
        BY <3>1, <4>1 DEF Trigger, TriggerTo, Change, KillswitchInv
      <4>2. CASE EnterRecovery(q)
        BY <3>1, <4>2 DEF EnterRecovery, Change, KillswitchInv
      <4> QED
        BY <2>5, <4>1, <4>2
    <3> QED
      BY <3>2 DEF Allowed
  <2>6. CASE \E i \in 1 .. MaxIncidents, a \in Approvals, v \in BOOLEAN : Resume(q, i, a, v)
    <3>1. q = p
      BY <2>2, <2>6 DEF Resume, Change, KillswitchInv
    <3>2. copy[p].st = "RECOVERY_PENDING"
      BY <2>6, <3>1 DEF Resume, Resumable
    <3> QED
      BY <3>2 DEF KillswitchInv, PendingIsCured
  <2> QED
    BY <2>1, <2>3, <2>4, <2>5, <2>6
<1> QED
  BY <1>1, KillswitchInvHolds, PTL DEF KSpec, ResumeIsEarned

\* An incident that stops somebody was raised, and so was the one that the call
\* under way is about.
Raised(rec) == rec.st \in {"TRIGGERED", "RECOVERY_PENDING"} => rec.inc # NoIncident
TaskTyped(t) ==
    /\ DOMAIN t = {"pc", "ev"} /\ t.pc \in {"idle", "open", "write", "append"}
    /\ t.pc # "idle" => t.ev.inc \in 1 .. MaxIncidents
KTypes ==
    /\ KTypeOK /\ DOMAIN todo = Procs
    /\ stateFile # Blank => Raised(stateFile)
    /\ \A p \in Procs :
        TaskTyped(todo[p]) /\ Raised(copy[p]) /\ (todo[p].pc # "idle" => copy[p] # Gone)

\* A call that changes the state of an instance leaves it the rest of its work
\* to do: the file, then the line of the trail (watchdog.py).
LEMMA ChangeKeepsTypes ==
    ASSUME KTypes, NEW p \in Procs, NEW rec \in Records, Raised(rec),
           NEW i \in 1 .. MaxIncidents, NEW from, NEW to, Change(p, rec, Event(i, from, to)),
           stateFile' = stateFile, trail' = trail,
           raised' \in 0 .. MaxIncidents, cured' \subseteq 1 .. MaxIncidents
    PROVE  KTypes'
<1>1. rec # Gone
  BY DEF Records, Gone, KillswitchState
<1>2. TaskTyped([pc |-> "open", ev |-> Event(i, from, to)])
  BY DEF TaskTyped, Event
<1>3. copy' = [copy EXCEPT ![p] = rec]
      /\ todo' = [todo EXCEPT ![p] = [pc |-> "open", ev |-> Event(i, from, to)]]
  BY DEF Change
<1> QED
  BY <1>1, <1>2, <1>3 DEF KTypes, KTypeOK, TaskTyped, Raised

\* The state file and every instance of watchdog.py hold a whole state or none;
\* a stop and every line of the trail name an incident that was raised.
THEOREM KillswitchTypes == KSpec => []KTypeOK
<1> USE KillswitchAssumption
<1>1. KInit => KTypes
  <2> SUFFICES ASSUME KInit PROVE KTypes
    OBVIOUS
  <2>1. Raised(Gone) /\ TaskTyped(Quiet) /\ Quiet.pc = "idle"
    BY DEF Raised, Gone, TaskTyped, Quiet
  <2> QED
    BY <2>1 DEF KInit, KTypes, KTypeOK
<1>2. KTypes /\ [KNext]_kvars => KTypes'
  <2> SUFFICES ASSUME KTypes, [KNext]_kvars PROVE KTypes'
    OBVIOUS
  <2>1. CASE UNCHANGED kvars
    BY <2>1 DEF kvars, KTypes, KTypeOK, TaskTyped, Raised
  <2>2. ASSUME NEW p \in Procs, Construct(p) PROVE KTypes'
    <3>1. Fresh \in Records /\ Raised(Fresh)
      BY DEF Fresh, Records, KillswitchState, Raised, NoIncident
    <3> QED
      BY <2>2, <3>1 DEF Construct, KTypes, KTypeOK, TaskTyped, Raised
  <2>3. ASSUME NEW p \in Procs, KillProc(p) PROVE KTypes'
    BY <2>3 DEF KillProc, KTypes, KTypeOK, TaskTyped, Raised, Quiet, Gone
  <2>4. ASSUME NEW p \in Procs, TruncateState(p) PROVE KTypes'
    BY <2>4 DEF TruncateState, GoOn, KTypes, KTypeOK, TaskTyped, Raised
  <2>5. ASSUME NEW p \in Procs, Write(p) PROVE KTypes'
    BY <2>5 DEF Write, GoOn, KTypes, KTypeOK, TaskTyped, Raised
  <2>6. ASSUME NEW p \in Procs, AppendEvent(p) PROVE KTypes'
    BY <2>6 DEF AppendEvent, GoOn, KTypes, KTypeOK, TaskTyped, Raised, Quiet
  <2>7. ASSUME NEW p \in Procs, Trigger(p) PROVE KTypes'
    <3>1. raised + 1 \in 1 .. MaxIncidents /\ raised' = raised + 1 /\ cured \subseteq 1 .. MaxIncidents
      BY <2>7 DEF Trigger, KTypes, KTypeOK
    <3>2. TriggerTo(p) \in Records /\ Raised(TriggerTo(p))
      BY <3>1 DEF TriggerTo, Records, KillswitchState, Raised, NoIncident
    <3> QED
      BY <2>7, <3>1, <3>2, ChangeKeepsTypes DEF Trigger
  <2>8. ASSUME NEW p \in Procs, EnterRecovery(p) PROVE KTypes'
    <3> DEFINE rec == [copy[p] EXCEPT !.st = "RECOVERY_PENDING", !.rootOk = TRUE]
    <3>1. copy[p] \in Records /\ copy[p].inc \in 1 .. MaxIncidents
      BY <2>8 DEF EnterRecovery, Free, KTypes, KTypeOK, Raised, NoIncident, Records
    <3>2. rec \in Records /\ Raised(rec)
      <4>1. "RECOVERY_PENDING" \in KillswitchState /\ TRUE \in BOOLEAN
        BY DEF KillswitchState
      <4>2. rec \in Records /\ rec.inc = copy[p].inc
        BY <3>1, <4>1 DEF Records
      <4> QED
        BY <3>1, <4>2 DEF Raised, NoIncident
    <3>3. /\ Change(p, rec, Event(copy[p].inc, "TRIGGERED", "RECOVERY_PENDING"))
          /\ UNCHANGED <<stateFile, trail, raised>> /\ cured' = cured \cup {copy[p].inc}
      BY <2>8 DEF EnterRecovery
    <3>4. raised \in 0 .. MaxIncidents /\ cured \subseteq 1 .. MaxIncidents
      BY DEF KTypes, KTypeOK
    <3> HIDE DEF rec
    <3> QED
      BY <3>1, <3>2, <3>3, <3>4, ChangeKeepsTypes
  <2>9. ASSUME NEW p \in Procs, NEW i \in 1 .. MaxIncidents, NEW a \in Approvals,
               NEW v \in BOOLEAN, Resume(p, i, a, v)
        PROVE  KTypes'
    <3> DEFINE rec == [copy[p] EXCEPT !.st = "ARMED", !.inc = NoIncident]
    <3>1. copy[p] \in Records
      BY <2>9 DEF Resume, Free, KTypes, KTypeOK
    <3>2. rec \in Records /\ Raised(rec)
      <4>1. "ARMED" \in KillswitchState /\ NoIncident \in 0 .. MaxIncidents
        BY DEF KillswitchState, NoIncident
      <4>2. rec \in Records /\ rec.st = "ARMED"
        BY <3>1, <4>1 DEF Records
      <4> QED
        BY <4>2 DEF Raised
    <3>3. /\ Change(p, rec, Event(i, "RECOVERY_PENDING", "ARMED"))
          /\ UNCHANGED <<stateFile, trail, raised, cured>>
      BY <2>9 DEF Resume
    <3>4. raised \in 0 .. MaxIncidents /\ cured \subseteq 1 .. MaxIncidents
      BY DEF KTypes, KTypeOK
    <3> HIDE DEF rec
    <3> QED
      BY <3>1, <3>2, <3>3, <3>4, ChangeKeepsTypes
  <2> QED
    BY <2>1, <2>2, <2>3, <2>4, <2>5, <2>6, <2>7, <2>8, <2>9 DEF KNext
<1>3. KTypes => KTypeOK
  BY DEF KTypes
<1> QED
  BY <1>1, <1>2, <1>3, PTL DEF KSpec

(***************************************************************************)
(* The controller lease.  As long as a controller may believe that it has  *)
(* the lease, no other call was under way when it wrote it, and it is in   *)
(* no call itself, the file is what it wrote, and nobody else is past the  *)
(* check: whoever reads the file is refused.                               *)
(***************************************************************************)
Undisturbed(c) == Believes(c) /\ asking[c].pc = "idle" /\ c \notin raced
LeaseInv ==
    /\ now \in Nat /\ LeaseTtl \in Nat /\ DOMAIN asking = Controllers
    /\ told \in [Controllers -> Nat] /\ \A c \in Controllers : asking[c].t \in Nat
    /\ \A c \in Controllers : Undisturbed(c) =>
        /\ lease.owner = c /\ lease.expires = told[c]
        /\ \A d \in Controllers \ {c} : asking[d].pc = "idle"

LEMMA LeaseInvHolds == LSpec => []LeaseInv
<1>1. LInit => LeaseInv
  BY LeaseAssumption DEF LInit, LeaseInv, Undisturbed, Believes, NotCalling
<1>2. LeaseInv /\ [LNext]_lvars => LeaseInv'
  <2> SUFFICES ASSUME LeaseInv, [LNext]_lvars PROVE LeaseInv'
    OBVIOUS
  <2> USE DEF LeaseInv, Undisturbed, Believes
  <2>1. CASE UNCHANGED lvars
    BY <2>1 DEF lvars
  <2>2. CASE LTick
    BY <2>2 DEF LTick, Advance
  <2>3. ASSUME NEW c \in Controllers, Check(c) PROVE LeaseInv'
    <3>1. ASSUME NEW d \in Controllers, Undisturbed(d)' PROVE Undisturbed(d) /\ c # d
      BY <2>3, <3>1 DEF Check
    <3>2. ASSUME NEW d \in Controllers PROVE ~ Undisturbed(d)'
      BY <2>3, <3>1, <3>2 DEF Check, FreeFor
    <3> QED
      BY <2>3, <3>2 DEF Check
  <2>4. ASSUME NEW c \in Controllers, Denied(c) PROVE LeaseInv'
    BY <2>4 DEF Denied, lvars
  <2>5. ASSUME NEW c \in Controllers, TruncateLease(c) PROVE LeaseInv'
    <3>1. ASSUME NEW d \in Controllers PROVE ~ Undisturbed(d)'
      BY <2>5, <3>1 DEF TruncateLease
    <3> QED
      BY <2>5, <3>1 DEF TruncateLease
  <2>6. ASSUME NEW c \in Controllers, WriteLease(c) PROVE LeaseInv'
    <3>1. ASSUME NEW d \in Controllers \ {c} PROVE ~ Undisturbed(d)'
      BY <2>6, <3>1 DEF WriteLease
    <3>2. ASSUME Undisturbed(c)'
          PROVE  lease'.owner = c /\ lease'.expires = told'[c]
                 /\ \A d \in Controllers \ {c} : asking'[d].pc = "idle"
      BY <2>6, <3>2 DEF WriteLease
    <3> QED
      BY <2>6, <3>1, <3>2, LeaseAssumption DEF WriteLease, NotCalling
  <2>7. ASSUME NEW c \in Controllers, Die(c) PROVE LeaseInv'
    BY <2>7 DEF Die, NotCalling
  <2> QED
    BY <2>1, <2>2, <2>3, <2>4, <2>5, <2>6, <2>7 DEF LNext
<1> QED
  BY <1>1, <1>2, PTL DEF LSpec

\* A controller that believes to have the lease and has it not was overtaken by
\* a call that was already past its check (acquire_or_renew_lease): for any
\* number of controllers, deaths and terms.
THEOREM NoSplitWithoutRace == LSpec => []SplitOnlyByRace
<1>1. LeaseInv => SplitOnlyByRace
  BY DEF LeaseInv, SplitOnlyByRace, Undisturbed, Believes, IsOwner
<1> QED
  BY <1>1, LeaseInvHolds, PTL

LTypes == LTypeOK /\ asking \in [Controllers -> [pc : {"idle", "open", "write"}, t : 0 .. MaxTime]]

\* The lease file names a controller or nobody, and ends at most one term after
\* the clock, however its writers interleave or die (watchdog.py).
THEOREM LeaseTypes == LSpec => []LTypeOK
<1> USE LeaseAssumption, ClockAssumption DEF LTypes, LTypeOK
<1>1. LInit => LTypes
  BY DEF LInit, NoLease, NotCalling
<1>2. LTypes /\ [LNext]_lvars => LTypes'
  <2> SUFFICES ASSUME LTypes, [LNext]_lvars PROVE LTypes'
    OBVIOUS
  <2>1. CASE UNCHANGED lvars
    BY <2>1 DEF lvars
  <2>2. CASE LTick
    BY <2>2 DEF LTick, Advance
  <2>3. ASSUME NEW c \in Controllers, Check(c) \/ Denied(c) \/ TruncateLease(c) PROVE LTypes'
    BY <2>3 DEF Check, Denied, TruncateLease, NoLease, lvars
  <2>4. ASSUME NEW c \in Controllers, WriteLease(c) PROVE LTypes'
    <3>1. asking[c].t + LeaseTtl \in 0 .. MaxTime + LeaseTtl
      OBVIOUS
    <3> QED
      BY <2>4, <3>1 DEF WriteLease, NotCalling
  <2>5. ASSUME NEW c \in Controllers, Die(c) PROVE LTypes'
    BY <2>5 DEF Die, NotCalling
  <2> QED
    BY <2>1, <2>2, <2>3, <2>4, <2>5 DEF LNext
<1> QED
  BY <1>1, <1>2, PTL DEF LSpec

(***************************************************************************)
(* The recovery engine.  What an engine let continue since it started is   *)
(* in its memory, and the call it executes is for a directive that is not. *)
(***************************************************************************)
EnginesTyped ==
    /\ DOMAIN engine = Engines
    /\ \A e \in Engines :
        /\ DOMAIN engine[e] = {"retries", "completed", "call"}
        /\ DOMAIN engine[e].call = {"pc", "d", "n", "payload"}
CallIsNew ==
    \A e \in Engines : engine[e].call.pc # "idle" => engine[e].call.d \notin engine[e].completed
ContinuedIsRemembered ==
    \A x \in continued : x.by \in Engines /\ x.d \in engine[x.by].completed
RecoveryInv == EnginesTyped /\ CallIsNew /\ ContinuedIsRemembered /\ ContinuedOnce

LEMMA RecoveryInvHolds == RSpec => []RecoveryInv
<1>1. RInit => RecoveryInv
  BY DEF RInit, New, NoCall, RecoveryInv, EnginesTyped, CallIsNew, ContinuedIsRemembered, ContinuedOnce
<1>2. RecoveryInv /\ [RNext]_rvars => RecoveryInv'
  <2> SUFFICES ASSUME RecoveryInv, [RNext]_rvars PROVE RecoveryInv'
    OBVIOUS
  <2> USE DEF RecoveryInv, EnginesTyped, CallIsNew, ContinuedIsRemembered, ContinuedOnce
  <2>1. CASE UNCHANGED rvars
    BY <2>1 DEF rvars
  <2>2. CASE RTick \/ BreakChain
    BY <2>2 DEF RTick, BreakChain
  <2>3. ASSUME NEW e \in Engines, NEW d \in Directives, NEW v \in Payloads,
               NEW k \in BOOLEAN, NEW f \in Failures, BeginRecovery(e, d, v, k, f)
        PROVE  RecoveryInv'
    <3> DEFINE tries == Recent(e, d) \cup {Attempt}
    <3>1. CASE UNCHANGED engine
      BY <2>3, <3>1 DEF BeginRecovery
    <3>2. CASE engine' = [engine EXCEPT ![e].retries[d] = tries]
      BY <2>3, <3>2 DEF BeginRecovery
    <3>3. CASE /\ engine' = [engine EXCEPT ![e].retries[d] = tries,
                    ![e].call = [pc |-> "save", d |-> d, n |-> Cardinality(tries), payload |-> v]]
               /\ MayContinue(e, d, k)
      BY <2>3, <3>3 DEF BeginRecovery, MayContinue
    <3> QED
      BY <2>3, <3>1, <3>2, <3>3 DEF BeginRecovery
  <2>4. ASSUME NEW e \in Engines, OpenCheckpoint(e) \/ WriteCheckpoint(e) PROVE RecoveryInv'
    BY <2>4 DEF OpenCheckpoint, WriteCheckpoint, Move
  <2>5. ASSUME NEW e \in Engines, Restore(e) PROVE RecoveryInv'
    <3>1. CASE ~ (Genuine(checkpoint[Slot(e)], engine[e].call.payload) /\ chain)
      BY <2>5, <3>1 DEF Restore, Move, NoCall
    <3>2. CASE Genuine(checkpoint[Slot(e)], engine[e].call.payload) /\ chain
      BY <2>5, <3>2 DEF Restore, Genuine, NoCall
    <3> QED
      BY <3>1, <3>2
  <2>6. ASSUME NEW e \in Engines, Restart(e) PROVE RecoveryInv'
    BY <2>6 DEF Restart, New, NoCall
  <2> QED
    BY <2>1, <2>2, <2>3, <2>4, <2>5, <2>6 DEF RNext
<1> QED
  BY <1>1, <1>2, PTL DEF RSpec

\* execute_safe_recovery lets a directive continue once per process, and from a
\* checkpoint for the payload it was asked about: for any number of engines over
\* one directory of checkpoints, any failures, windows and restarts.
THEOREM DirectivesContinueOnce == RSpec => []ContinuedOnce
<1>1. RecoveryInv => ContinuedOnce
  BY DEF RecoveryInv
<1> QED
  BY <1>1, RecoveryInvHolds, PTL

CallOf(e) ==
    /\ engine[e].call.pc \in {"idle", "save", "write", "restore"}
    /\ engine[e].call.pc # "idle" =>
        engine[e].call.d \in Directives /\ engine[e].call.payload \in Payloads
RTypes ==
    /\ RTypeOK /\ EnginesTyped /\ DOMAIN checkpoint = Slots
    /\ \A e \in Engines : CallOf(e)

\* Every checkpoint in a file has a payload that some call was given
\* (recovery_engine.py), over restarts and calls that interleave.
THEOREM RecoveryTypes == RSpec => []RTypeOK
<1> USE RecoveryAssumption, ClockAssumption
<1>1. RInit => RTypes
  BY DEF RInit, New, NoCall, RTypes, RTypeOK, EnginesTyped, CallOf
<1>2. RTypes /\ [RNext]_rvars => RTypes'
  <2> SUFFICES ASSUME RTypes, [RNext]_rvars PROVE RTypes'
    OBVIOUS
  <2> USE DEF RTypes, RTypeOK, EnginesTyped, CallOf
  <2>1. CASE UNCHANGED rvars
    BY <2>1 DEF rvars
  <2>2. CASE RTick
    BY <2>2 DEF RTick, Advance
  <2>8. CASE BreakChain
    <3>1. chain' = FALSE /\ UNCHANGED <<now, checkpoint, engine, calls>>
      BY <2>8 DEF BreakChain
    <3> QED
      BY <3>1
  <2>3. ASSUME NEW e \in Engines, NEW d \in Directives, NEW v \in Payloads,
               NEW k \in BOOLEAN, NEW f \in Failures, BeginRecovery(e, d, v, k, f)
        PROVE  RTypes'
    <3> DEFINE tries == Recent(e, d) \cup {Attempt}
    <3>0. calls' \in 0 .. MaxCalls /\ UNCHANGED <<now, checkpoint, chain>>
      BY <2>3 DEF BeginRecovery
    <3>1. CASE UNCHANGED engine
      BY <3>0, <3>1
    <3>2. CASE engine' = [engine EXCEPT ![e].retries[d] = tries]
      BY <3>0, <3>2
    <3>3. CASE engine' = [engine EXCEPT ![e].retries[d] = tries,
                    ![e].call = [pc |-> "save", d |-> d, n |-> Cardinality(tries), payload |-> v]]
      BY <3>0, <3>3
    <3> QED
      BY <2>3, <3>1, <3>2, <3>3 DEF BeginRecovery
  <2>4. ASSUME NEW e \in Engines, OpenCheckpoint(e) PROVE RTypes'
    BY <2>4 DEF OpenCheckpoint, Move
  <2>5. ASSUME NEW e \in Engines, WriteCheckpoint(e) PROVE RTypes'
    BY <2>5 DEF WriteCheckpoint, Move
  <2>6. ASSUME NEW e \in Engines, Restore(e) PROVE RTypes'
    <3>1. UNCHANGED <<now, checkpoint, chain, calls>> /\ engine[e].call.d \in Directives
      BY <2>6 DEF Restore
    <3>2. CASE engine' = [engine EXCEPT ![e].call = NoCall, ![e].completed = @ \cup {engine[e].call.d}]
      BY <3>1, <3>2 DEF NoCall
    <3>3. CASE engine' = [engine EXCEPT ![e].call = NoCall]
      BY <3>1, <3>3 DEF NoCall
    <3> QED
      BY <2>6, <3>2, <3>3 DEF Restore, Move
  <2>7. ASSUME NEW e \in Engines, Restart(e) PROVE RTypes'
    BY <2>7 DEF Restart, New, NoCall
  <2> QED
    BY <2>1, <2>2, <2>3, <2>4, <2>5, <2>6, <2>7, <2>8 DEF RNext
<1>3. RTypes => RTypeOK
  BY DEF RTypes
<1> QED
  BY <1>1, <1>2, <1>3, PTL DEF RSpec

(***************************************************************************)
(* The retries an engine authorised in the last Window are among those it  *)
(* remembers: the refused attempts that it remembers too only make it      *)
(* stricter, and what it forgets is too old for any window that is open.   *)
(***************************************************************************)
Attempts == [at : Nat, n : Nat]
AttemptsTyped ==
    /\ now \in Nat /\ calls \in Nat
    /\ DOMAIN engine = Engines /\ DOMAIN granted = Engines
    /\ \A e \in Engines :
        /\ DOMAIN engine[e] = {"retries", "completed", "call"}
        /\ engine[e].retries \in [Directives -> SUBSET Attempts]
        /\ granted[e] \in [Directives -> SUBSET Attempts]
        /\ \A d \in Directives : IsFiniteSet(engine[e].retries[d]) /\ IsFiniteSet(granted[e][d])
AttemptsArePast ==
    \A e \in Engines, d \in Directives :
        \A x \in engine[e].retries[d] \cup granted[e][d] : x.at <= now /\ x.n < calls
GrantsAreRemembered ==
    \A e \in Engines, d \in Directives :
        \A x \in granted[e][d] : now - x.at <= Window => x \in engine[e].retries[d]
RetryInv == AttemptsTyped /\ AttemptsArePast /\ GrantsAreRemembered /\ NoRetryStorm

\* An attempt is not one of those remembered, so attempt_retry's count goes up by one.
LEMMA AttemptIsNew ==
    ASSUME RetryInv, NEW e \in Engines, NEW d \in Directives
    PROVE  /\ IsFiniteSet(Recent(e, d)) /\ IsFiniteSet(Recent(e, d) \cup {Attempt})
           /\ Cardinality(Recent(e, d) \cup {Attempt}) = Cardinality(Recent(e, d)) + 1
<1>1. IsFiniteSet(Recent(e, d)) /\ Attempt \notin Recent(e, d)
  <2>1. Recent(e, d) \subseteq engine[e].retries[d] /\ IsFiniteSet(engine[e].retries[d])
    BY DEF Recent, RetryInv, AttemptsTyped
  <2>2. \A x \in engine[e].retries[d] : x.n < calls
    BY DEF RetryInv, AttemptsArePast
  <2> QED
    BY <2>1, <2>2, FS_Subset DEF Attempt, RetryInv, AttemptsTyped
<1> QED
  BY <1>1, FS_AddElement

\* What lies within limits, or is nothing at all, is no storm.
LEMMA FewAttempts ==
    ASSUME NEW few, NEW many, IsFiniteSet(many), few \subseteq many, Cardinality(many) <= MaxRetries
    PROVE  Cardinality(few) <= MaxRetries
  BY RecoveryAssumption, FS_Subset, FS_CardinalityType
LEMMA NoAttempts == Cardinality({}) <= MaxRetries
  BY RecoveryAssumption, FS_EmptySet

LEMMA RetryInvHolds == RSpec => []RetryInv
<1> USE ClockAssumption, RecoveryAssumption
<1>1. RInit => RetryInv
  <2> SUFFICES ASSUME RInit PROVE RetryInv
    OBVIOUS
  <2>1. AttemptsTyped
    BY FS_EmptySet DEF RInit, New, AttemptsTyped
  <2>2. ASSUME NEW e \in Engines, NEW d \in Directives
        PROVE  granted[e][d] = {} /\ engine[e].retries[d] = {}
    BY DEF RInit, New
  <2>3. NoRetryStorm
    <3> SUFFICES ASSUME NEW e \in Engines, NEW d \in Directives, NEW t \in 0 .. now
                 PROVE  Cardinality(InWindow(granted[e][d], t)) <= MaxRetries
      BY DEF NoRetryStorm
    <3>1. InWindow(granted[e][d], t) = {}
      BY <2>2 DEF InWindow
    <3> QED
      BY <3>1, NoAttempts
  <2> QED
    BY <2>1, <2>2, <2>3 DEF RetryInv, AttemptsArePast, GrantsAreRemembered
<1>2. RetryInv /\ [RNext]_rvars => RetryInv'
  <2> SUFFICES ASSUME RetryInv, [RNext]_rvars PROVE RetryInv'
    OBVIOUS
  <2>1. ASSUME UNCHANGED <<now, granted>>, calls' \in Nat, calls' >= calls,
               DOMAIN engine' = Engines,
               \A e \in Engines : DOMAIN engine'[e] = DOMAIN engine[e]
                                  /\ engine'[e].retries = engine[e].retries
        PROVE  RetryInv'
    <3>1. AttemptsTyped'
      BY <2>1 DEF RetryInv, AttemptsTyped
    <3>2. AttemptsArePast'
      <4>1. \A e \in Engines, d \in Directives :
              \A x \in engine[e].retries[d] \cup granted[e][d] : x \in Attempts
        BY DEF RetryInv, AttemptsTyped
      <4> QED
        BY <2>1, <4>1 DEF RetryInv, AttemptsTyped, AttemptsArePast, Attempts
    <3>3. GrantsAreRemembered' /\ NoRetryStorm'
      BY <2>1 DEF RetryInv, GrantsAreRemembered, NoRetryStorm
    <3> QED
      BY <3>1, <3>2, <3>3 DEF RetryInv
  <2>2. CASE UNCHANGED rvars
    BY <2>1, <2>2 DEF rvars, RetryInv, AttemptsTyped
  <2>3. CASE RTick
    <3>1. now' = now + 1 /\ UNCHANGED <<engine, granted, calls>>
      BY <2>3 DEF RTick, Advance
    <3>2. AttemptsTyped' /\ AttemptsArePast' /\ GrantsAreRemembered'
      BY <3>1 DEF RetryInv, AttemptsTyped, AttemptsArePast, GrantsAreRemembered, Attempts
    <3>3. NoRetryStorm'
      <4> SUFFICES ASSUME NEW e \in Engines, NEW d \in Directives, NEW t \in 0 .. now'
                   PROVE  Cardinality(InWindow(granted'[e][d], t)) <= MaxRetries
        BY DEF NoRetryStorm
      <4>1. CASE t \in 0 .. now
        BY <3>1, <4>1 DEF RetryInv, NoRetryStorm
      <4>2. CASE t = now + 1
        <5>1. InWindow(granted'[e][d], t) = {}
          BY <3>1, <4>2 DEF RetryInv, AttemptsTyped, AttemptsArePast, Attempts, InWindow
        <5> QED
          BY <5>1, NoAttempts
      <4> QED
        BY <3>1, <4>1, <4>2 DEF RetryInv, AttemptsTyped
    <3> QED
      BY <3>2, <3>3 DEF RetryInv
  <2>4. CASE BreakChain
    BY <2>1, <2>4 DEF BreakChain, RetryInv, AttemptsTyped
  <2>5. ASSUME NEW e \in Engines, NEW d \in Directives, NEW v \in Payloads,
               NEW k \in BOOLEAN, NEW f \in Failures, BeginRecovery(e, d, v, k, f)
        PROVE  RetryInv'
    <3> DEFINE tries == Recent(e, d) \cup {Attempt}
    <3>1. now' = now /\ calls' = calls + 1
      BY <2>5 DEF BeginRecovery
    <3>2. CASE UNCHANGED <<engine, granted>>
      BY <2>1, <3>1, <3>2 DEF RetryInv, AttemptsTyped
    <3>3. ASSUME \A c \in Engines : DOMAIN engine'[c] = DOMAIN engine[c]
                     /\ engine'[c].retries =
                          IF c = e THEN [engine[e].retries EXCEPT ![d] = tries] ELSE engine[c].retries,
                 DOMAIN engine' = Engines,
                 \/ UNCHANGED granted
                 \/ /\ granted' = [granted EXCEPT ![e][d] = @ \cup {Attempt}]
                    /\ Cardinality(tries) <= MaxRetries
          PROVE  RetryInv'
      <4> USE DEF RetryInv
      <4>0. /\ Attempt \in Attempts /\ Attempt.at = now /\ Attempt.n = calls
            /\ IsFiniteSet(tries) /\ tries \subseteq Attempts
        <5>1. Attempt \in Attempts /\ Attempt.at = now /\ Attempt.n = calls
          BY DEF Attempt, Attempts, AttemptsTyped
        <5>2. Recent(e, d) \subseteq Attempts
          BY DEF AttemptsTyped, Recent
        <5> QED
          BY <5>1, <5>2, AttemptIsNew
      <4>1. ASSUME NEW c \in Engines, NEW b \in Directives
            PROVE  /\ engine'[c].retries[b] = IF c = e /\ b = d THEN tries ELSE engine[c].retries[b]
                   /\ \/ granted'[c][b] = granted[c][b]
                      \/ /\ granted'[c][b] = granted[c][b] \cup {Attempt}
                         /\ c = e /\ b = d /\ Cardinality(tries) <= MaxRetries
        <5> HIDE DEF tries
        <5>1. /\ engine'[c].retries = IF c = e THEN [engine[e].retries EXCEPT ![d] = tries]
                                              ELSE engine[c].retries
              /\ DOMAIN engine[c].retries = Directives
              /\ DOMAIN granted = Engines /\ DOMAIN granted[c] = Directives
          BY <3>3 DEF AttemptsTyped
        <5>2. engine'[c].retries[b] = IF c = e /\ b = d THEN tries ELSE engine[c].retries[b]
          BY <5>1
        <5> QED
          BY <3>3, <5>1, <5>2
      <4>2. DOMAIN granted' = Engines
            /\ \A c \in Engines : DOMAIN granted'[c] = Directives /\ DOMAIN engine'[c].retries = Directives
        BY <3>3 DEF AttemptsTyped
      <4>3. AttemptsTyped'
        <5>1. ASSUME NEW c \in Engines, NEW b \in Directives
              PROVE  /\ engine'[c].retries[b] \in SUBSET Attempts /\ IsFiniteSet(engine'[c].retries[b])
                     /\ granted'[c][b] \in SUBSET Attempts /\ IsFiniteSet(granted'[c][b])
          <6> HIDE DEF tries
          <6>1. /\ engine[c].retries[b] \subseteq Attempts /\ IsFiniteSet(engine[c].retries[b])
                /\ granted[c][b] \subseteq Attempts /\ IsFiniteSet(granted[c][b])
            BY DEF AttemptsTyped
          <6>2. IsFiniteSet(granted[c][b] \cup {Attempt})
            BY <6>1, FS_AddElement
          <6>3. engine'[c].retries[b] = tries \/ engine'[c].retries[b] = engine[c].retries[b]
            BY <4>1
          <6>4. engine'[c].retries[b] \in SUBSET Attempts /\ IsFiniteSet(engine'[c].retries[b])
            BY <4>0, <6>1, <6>3
          <6>5. granted'[c][b] \in SUBSET Attempts /\ IsFiniteSet(granted'[c][b])
            <7>1. granted'[c][b] = granted[c][b] \/ granted'[c][b] = granted[c][b] \cup {Attempt}
              BY <4>1
            <7> QED
              BY <4>0, <6>1, <6>2, <7>1
          <6> QED
            BY <6>4, <6>5
        <5>2. ASSUME NEW c \in Engines
              PROVE  /\ engine'[c].retries \in [Directives -> SUBSET Attempts]
                     /\ granted'[c] \in [Directives -> SUBSET Attempts]
          <6>1. engine'[c].retries = [b \in Directives |-> engine'[c].retries[b]]
            BY <3>3 DEF AttemptsTyped
          <6>2. granted'[c] = [b \in Directives |-> granted'[c][b]]
            BY <3>3 DEF AttemptsTyped
          <6> QED
            BY <5>1, <6>1, <6>2
        <5> QED
          BY <3>1, <3>3, <4>2, <5>1, <5>2 DEF AttemptsTyped
      <4>4. AttemptsArePast'
        <5> SUFFICES ASSUME NEW c \in Engines, NEW b \in Directives,
                            NEW x \in engine'[c].retries[b] \cup granted'[c][b]
                     PROVE  x.at <= now /\ x.n < calls + 1
          BY <3>1 DEF AttemptsArePast
        <5>0. tries \subseteq engine[e].retries[d] \cup {Attempt}
          BY DEF Recent
        <5>1. x = Attempt \/ x \in engine[c].retries[b] \cup granted[c][b]
          <6> HIDE DEF tries
          <6>1. CASE c = e /\ b = d
            BY <4>1, <5>0, <6>1
          <6>2. CASE ~ (c = e /\ b = d)
            BY <4>1, <6>2
          <6> QED
            BY <6>1, <6>2
        <5>2. x \in Attempts
          BY <4>0, <5>1 DEF AttemptsTyped
        <5> QED
          BY <4>0, <5>1, <5>2 DEF AttemptsArePast, AttemptsTyped, Attempts
      <4>5. GrantsAreRemembered'
        <5> SUFFICES ASSUME NEW c \in Engines, NEW b \in Directives,
                            NEW x \in granted'[c][b], now - x.at <= Window
                     PROVE  x \in engine'[c].retries[b]
          BY <3>1 DEF GrantsAreRemembered
        <5>1. CASE x \in granted[c][b]
          <6>1. x \in engine[c].retries[b]
            BY <5>1 DEF GrantsAreRemembered
          <6>2. c = e /\ b = d => x \in tries
            BY <6>1 DEF Recent
          <6> HIDE DEF tries
          <6> QED
            BY <4>1, <6>1, <6>2
        <5>2. CASE x \notin granted[c][b]
          BY <4>1, <5>2
        <5> QED
          BY <5>1, <5>2
      <4>6. NoRetryStorm'
        <5> SUFFICES ASSUME NEW c \in Engines, NEW b \in Directives, NEW t \in 0 .. now
                     PROVE  Cardinality(InWindow(granted'[c][b], t)) <= MaxRetries
          BY <3>1 DEF NoRetryStorm
        <5>1. CASE \/ granted'[c][b] = granted[c][b]
                   \/ now > t + Window
          <6>1. InWindow(granted'[c][b], t)
                  = InWindow(granted[c][b], t)
            BY <4>0, <4>1, <5>1 DEF AttemptsTyped, InWindow
          <6> QED
            BY <6>1 DEF NoRetryStorm
        <5>2. CASE granted'[c][b] # granted[c][b] /\ now <= t + Window
          <6>1. /\ c = e /\ b = d /\ Cardinality(tries) <= MaxRetries
                /\ granted'[c][b] = granted[c][b] \cup {Attempt}
            BY <4>1, <5>2
          <6>2. ASSUME NEW x \in granted[c][b], x.at \in t .. t + Window PROVE x \in tries
            <7>1. x \in Attempts /\ now - x.at <= Window
              BY <5>2, <6>2 DEF AttemptsTyped, Attempts
            <7> QED
              BY <6>1, <7>1 DEF GrantsAreRemembered, Recent
          <6>3. InWindow(granted'[c][b], t) \subseteq tries
            BY <6>1, <6>2 DEF InWindow, Attempt
          <6> QED
            BY <4>0, <6>1, <6>3, FewAttempts
        <5> QED
          BY <5>1, <5>2 DEF AttemptsTyped
      <4> QED
        BY <4>3, <4>4, <4>5, <4>6
    <3>4. CASE /\ engine' = [engine EXCEPT ![e].retries[d] = tries] /\ UNCHANGED granted
      BY <3>3, <3>4 DEF RetryInv, AttemptsTyped
    <3>5. CASE /\ engine' = [engine EXCEPT ![e].retries[d] = tries,
                    ![e].call = [pc |-> "save", d |-> d, n |-> Cardinality(tries), payload |-> v]]
               /\ granted' = [granted EXCEPT ![e][d] = @ \cup {Attempt}]
               /\ ~ Cardinality(tries) > MaxRetries
      <4>1. Cardinality(tries) <= MaxRetries
        BY <3>5, AttemptIsNew, FS_CardinalityType
      <4> QED
        BY <3>3, <3>5, <4>1 DEF RetryInv, AttemptsTyped
    <3> QED
      BY <2>5, <3>2, <3>4, <3>5 DEF BeginRecovery
  <2>6. ASSUME NEW e \in Engines, OpenCheckpoint(e) \/ WriteCheckpoint(e) \/ Restore(e)
        PROVE  RetryInv'
    <3>1. UNCHANGED <<now, granted, calls>>
      BY <2>6 DEF OpenCheckpoint, WriteCheckpoint, Restore
    <3>2. /\ DOMAIN engine' = Engines
          /\ \A c \in Engines : DOMAIN engine'[c] = DOMAIN engine[c]
                                /\ engine'[c].retries = engine[c].retries
      BY <2>6 DEF OpenCheckpoint, WriteCheckpoint, Restore, Move, RetryInv, AttemptsTyped
    <3> QED
      BY <2>1, <3>1, <3>2 DEF RetryInv, AttemptsTyped
  <2>7. ASSUME NEW e \in Engines, Restart(e) PROVE RetryInv'
    <3>1. /\ UNCHANGED <<now, calls>>
          /\ engine' = [engine EXCEPT ![e] = New]
          /\ granted' = [granted EXCEPT ![e] = [d \in Directives |-> {}]]
      BY <2>7 DEF Restart
    <3>2. ASSUME NEW c \in Engines, NEW d \in Directives
          PROVE  \/ granted'[c][d] = {} /\ engine'[c].retries[d] = {}
                 \/ granted'[c][d] = granted[c][d] /\ engine'[c].retries[d] = engine[c].retries[d]
      BY <3>1 DEF New, RetryInv, AttemptsTyped
    <3>3. AttemptsTyped'
      BY <3>1, FS_EmptySet DEF New, RetryInv, AttemptsTyped
    <3>4. AttemptsArePast' /\ GrantsAreRemembered'
      BY <3>1, <3>2 DEF RetryInv, AttemptsArePast, GrantsAreRemembered
    <3>5. NoRetryStorm'
      <4> SUFFICES ASSUME NEW c \in Engines, NEW d \in Directives, NEW t \in 0 .. now
                   PROVE  Cardinality(InWindow(granted'[c][d], t)) <= MaxRetries
        BY <3>1 DEF NoRetryStorm
      <4>1. CASE granted'[c][d] = {}
        <5>1. InWindow(granted'[c][d], t) = {}
          BY <4>1 DEF InWindow
        <5> QED
          BY <5>1, NoAttempts
      <4>2. CASE granted'[c][d] = granted[c][d]
        BY <4>2 DEF RetryInv, NoRetryStorm
      <4> QED
        BY <3>2, <4>1, <4>2
    <3> QED
      BY <3>3, <3>4, <3>5 DEF RetryInv
  <2> QED
    BY <2>2, <2>3, <2>4, <2>5, <2>6, <2>7 DEF RNext
<1> QED
  BY <1>1, <1>2, PTL DEF RSpec

\* attempt_retry stops a retry storm: within any window an engine authorises at
\* most max_retries retries of a directive, for every window and limit, however
\* refused and authorised attempts, other directives and restarts interleave.
THEOREM RetriesAreBounded == RSpec => []NoRetryStorm
<1>1. RetryInv => NoRetryStorm
  BY DEF RetryInv
<1> QED
  BY <1>1, RetryInvHolds, PTL

(***************************************************************************)
(* The observer.  Whoever is past the lock and not yet past the unlock     *)
(* holds it, so the files under a sweep are the ones this sweep wrote.     *)
(***************************************************************************)
Inside == Sweeping \cup {"locked", "loop", "leave"}
LockIsHeld == \A i \in Instances : inst[i].pc \in Inside => lock = i
InstancesTyped ==
    /\ DOMAIN inst = Instances
    /\ \A i \in Instances :
        /\ DOMAIN inst[i] = {"pc", "seen", "named"}
        /\ inst[i].seen \in [Projects -> Observed \cup {Nobody}]
    /\ project \in [Projects -> Observed \cup {Nobody, Torn}]
\* What a sweep has seen is in the state files, but for the one it is writing.
Seen(i, p) == inst[i].seen[p] # Nobody
FilesFollowSweep ==
    \A i \in Instances :
        /\ inst[i].pc \in {"projects", "global", "publish"} =>
             \A p \in Projects : Seen(i, p) => project[p] = inst[i].seen[p]
        /\ inst[i].pc = "torn" =>
             \E q \in Projects : \A p \in Projects \ {q} : Seen(i, p) => project[p] = inst[i].seen[p]
        /\ inst[i].pc \in {"global", "publish"} => \A p \in Projects : Seen(i, p)
        /\ inst[i].pc = "publish" => global = Summary(inst[i].seen)
ObserverInv ==
    InstancesTyped /\ LockIsHeld /\ FilesFollowSweep /\ PublishedIsWhole /\ PidNeverNamesAnother

LEMMA ObserverInvHolds == ESpec => []ObserverInv
<1> USE EngineAssumption DEF At, Enter, Sweeping, Inside
<1>1. EInit => ObserverInv
  BY DEF EInit, Off, Unseen, ObserverInv, InstancesTyped, LockIsHeld, FilesFollowSweep,
         PublishedIsWhole, PidNeverNamesAnother
<1>2. ObserverInv /\ [ENext]_evars => ObserverInv'
  <2> SUFFICES ASSUME ObserverInv, [ENext]_evars PROVE ObserverInv'
    OBVIOUS
  <2> USE DEF ObserverInv, InstancesTyped, LockIsHeld, FilesFollowSweep, Seen,
              PublishedIsWhole, PidNeverNamesAnother
  <2>1. CASE UNCHANGED evars
    BY <2>1 DEF evars
  <2>2. ASSUME NEW i \in Instances, Acquire(i) \/ RefusedLock(i) PROVE ObserverInv'
    BY <2>2 DEF Acquire, RefusedLock, MayLock, evars
  <2>3. ASSUME NEW i \in Instances, NEW ok \in BOOLEAN, WritePid(i, ok) PROVE ObserverInv'
    BY <2>3 DEF WritePid
  <2>4. ASSUME NEW i \in Instances, Unlock(i) \/ Unlink(i) PROVE ObserverInv'
    BY <2>4 DEF Unlock, Unlink, Off, Unseen
  <2>5. ASSUME NEW i \in Instances, Leave(i) \/ KillInstance(i) PROVE ObserverInv'
    BY <2>5 DEF Leave, KillInstance, Off, Unseen
  <2>6. ASSUME NEW i \in Instances, BeginSweep(i) PROVE ObserverInv'
    BY <2>6 DEF BeginSweep, Unseen
  <2>7. ASSUME NEW i \in Instances, NEW p \in Projects, NEW st \in Observed, Observe(i, p, st)
        PROVE  ObserverInv'
    BY <2>7 DEF Observe
  <2>8. ASSUME NEW i \in Instances, WriteProject(i) PROVE ObserverInv'
    BY <2>8 DEF WriteProject
  <2>9. ASSUME NEW i \in Instances, OpenGlobal(i) \/ WriteGlobal(i) PROVE ObserverInv'
    BY <2>9 DEF OpenGlobal, WriteGlobal
  <2>10. ASSUME NEW i \in Instances, Publish(i) \/ NoPublish(i) PROVE ObserverInv'
    <3>1. CASE NoPublish(i)
      BY <3>1 DEF NoPublish
    <3>2. CASE Publish(i)
      <4>1. project = inst[i].seen /\ inst[i].seen \in [Projects -> Observed]
        <5>1. \A p \in Projects : project[p] = inst[i].seen[p] /\ inst[i].seen[p] \in Observed
          BY <3>2 DEF Publish
        <5> QED
          BY <5>1
      <4>2. global = Summary(project)
        BY <3>2, <4>1 DEF Publish
      <4> QED
        BY <3>2, <4>1, <4>2 DEF Publish
    <3> QED
      BY <2>10, <3>1, <3>2
  <2> QED
    BY <2>1, <2>2, <2>3, <2>4, <2>5, <2>6, <2>7, <2>8, <2>9, <2>10 DEF ENext
<1> QED
  BY <1>1, <1>2, PTL DEF ESpec

\* What is pushed is one whole sweep (run_sweep, under the single-instance lock):
\* for any number of instances and projects, whatever is killed or fails.
THEOREM WholeSweepsArePublished == ESpec => []PublishedIsWhole
<1>1. ObserverInv => PublishedIsWhole
  BY DEF ObserverInv
<1> QED
  BY <1>1, ObserverInvHolds, PTL

\* While an instance that wrote its pid runs, the pid file names no other one
\* (lock_manager.py), though release deletes the file after it gave up the lock.
THEOREM PidIsTheHolders == ESpec => []PidNeverNamesAnother
<1>1. ObserverInv => PidNeverNamesAnother
  BY DEF ObserverInv
<1> QED
  BY <1>1, ObserverInvHolds, PTL

InstTyped(m) ==
    /\ DOMAIN m = {"pc", "seen", "named"}
    /\ m.pc \in Sweeping \cup {"off", "locked", "loop", "leave", "unlocked"}
    /\ m.seen \in [Projects -> Observed \cup {Nobody}]
    /\ m.pc = "global" => m.seen \in [Projects -> Observed]
ETypes ==
    /\ ETypeOK /\ DOMAIN inst = Instances
    /\ \A i \in Instances : InstTyped(inst[i])

\* The files of the observer (engine.py, lock_manager.py) hold what some sweep
\* saw, nothing, or what a killed write left.
THEOREM ObserverTypes == ESpec => []ETypeOK
<1> USE EngineAssumption DEF ETypes, ETypeOK, InstTyped, Sweeping
<1>1. EInit => ETypes
  BY DEF EInit, Off, Unseen
<1>2. ETypes /\ [ENext]_evars => ETypes'
  <2> SUFFICES ASSUME ETypes, [ENext]_evars PROVE ETypes'
    OBVIOUS
  <2>1. CASE UNCHANGED evars
    BY <2>1 DEF evars
  <2>2. ASSUME NEW i \in Instances, Acquire(i) \/ RefusedLock(i) \/ Unlock(i) \/ Leave(i) PROVE ETypes'
    BY <2>2 DEF Acquire, RefusedLock, Unlock, Leave, Enter, evars
  <2>3. ASSUME NEW i \in Instances, Unlink(i) \/ KillInstance(i) PROVE ETypes'
    BY <2>3 DEF Unlink, KillInstance, Off, Unseen
  <2>4. ASSUME NEW i \in Instances, NEW ok \in BOOLEAN, WritePid(i, ok) PROVE ETypes'
    BY <2>4 DEF WritePid
  <2>5. ASSUME NEW i \in Instances, BeginSweep(i) PROVE ETypes'
    BY <2>5 DEF BeginSweep, Unseen
  <2>6. ASSUME NEW i \in Instances, NEW p \in Projects, NEW st \in Observed, Observe(i, p, st) PROVE ETypes'
    BY <2>6 DEF Observe
  <2>7. ASSUME NEW i \in Instances, WriteProject(i) PROVE ETypes'
    BY <2>7 DEF WriteProject, Enter
  <2>8. ASSUME NEW i \in Instances, OpenGlobal(i) PROVE ETypes'
    BY <2>8 DEF OpenGlobal, Enter, At
  <2>9. ASSUME NEW i \in Instances, WriteGlobal(i) PROVE ETypes'
    BY <2>9 DEF WriteGlobal, Enter, At
  <2>10. ASSUME NEW i \in Instances, Publish(i) \/ NoPublish(i) PROVE ETypes'
    BY <2>10 DEF Publish, NoPublish, Enter
  <2> QED
    BY <2>1, <2>2, <2>3, <2>4, <2>5, <2>6, <2>7, <2>8, <2>9, <2>10 DEF ENext
<1> QED
  BY <1>1, <1>2, PTL DEF ESpec

(***************************************************************************)
(* Sets of records with an id each.                                        *)
(***************************************************************************)
OnePerId(recs) == \A x, y \in recs : x.id = y.id => x = y

\* What Rec finds is there, and it is the only record with that id.
LEMMA RecIsThere ==
    ASSUME NEW recs, NEW r, Has(recs, r)
    PROVE  Rec(recs, r) \in recs /\ Rec(recs, r).id = r
  BY DEF Has, Rec
LEMMA RecIsIt ==
    ASSUME NEW recs, OnePerId(recs), NEW x \in recs
    PROVE  Has(recs, x.id) /\ Rec(recs, x.id) = x
<1>1. Has(recs, x.id)
  BY DEF Has
<1> QED
  BY <1>1, RecIsThere DEF OnePerId

\* With replaces the record of an id and keeps the others.
LEMMA WithReplaces ==
    ASSUME NEW recs, OnePerId(recs), NEW x
    PROVE  /\ OnePerId(With(recs, x)) /\ x \in With(recs, x)
           /\ \A y \in With(recs, x) : y = x \/ (y \in recs /\ y.id # x.id)
           /\ \A y \in recs : y.id # x.id => y \in With(recs, x)
  BY DEF OnePerId, With

(***************************************************************************)
(* The directive queue, of which one instance is open at a time: then a    *)
(* record that ended in the file is as it ended in the memory as well.     *)
(* (A second instance would save its own memory over the file.)            *)
(***************************************************************************)
SoleQueue == \A q, r \in Queues : q = r
QueueFields == {"id", "state", "payload", "owner"}
QueueTyped ==
    /\ DOMAIN saving = Queues /\ DOMAIN records = Queues
    /\ OnePerId(queueFile) /\ \A x \in queueFile : DOMAIN x = QueueFields
    /\ \A q \in Queues : OnePerId(records[q]) /\ \A x \in records[q] : DOMAIN x = QueueFields
EndedIsFinal ==
    \A d \in ended : \E x \in queueFile :
        /\ x.id = d /\ x.state \in TERMINAL_STATES
        /\ \A q \in Queues : saving[q].pc # "down" => x \in records[q]
QueueInv == QueueTyped /\ EndedIsFinal

\* A call that puts x in memory, of a directive that has not ended.
LEMMA KeepIsSafe ==
    ASSUME QueueInv, NEW q \in Queues, saving[q].pc = "ready", NEW x, NEW from,
           DOMAIN x = QueueFields,
           \A y \in records[q] : y.id = x.id => y.state \notin TERMINAL_STATES,
           Keep(q, x, from)
    PROVE  QueueInv'
<1>1. /\ DOMAIN saving' = Queues /\ DOMAIN records' = Queues
      /\ records'[q] = With(records[q], x) /\ UNCHANGED <<queueFile, ended>>
      /\ \A r \in Queues \ {q} : records'[r] = records[r] /\ saving'[r] = saving[r]
  BY DEF Keep, QueueInv, QueueTyped
<1>2. OnePerId(records[q]) /\ OnePerId(records'[q])
  BY <1>1, WithReplaces DEF QueueInv, QueueTyped
<1>3. QueueTyped'
  <2>1. \A y \in records'[q] : DOMAIN y = QueueFields
    BY <1>1, <1>2, WithReplaces DEF QueueInv, QueueTyped
  <2> QED
    BY <1>1, <1>2, <2>1 DEF QueueInv, QueueTyped, OnePerId
<1>4. ASSUME NEW d \in ended
      PROVE  \E y \in queueFile :
                /\ y.id = d /\ y.state \in TERMINAL_STATES
                /\ \A r \in Queues : saving'[r].pc # "down" => y \in records'[r]
  <2>1. PICK y \in queueFile :
            /\ y.id = d /\ y.state \in TERMINAL_STATES
            /\ \A r \in Queues : saving[r].pc # "down" => y \in records[r]
    BY DEF QueueInv, EndedIsFinal
  <2>2. y \in records[q] /\ y.id # x.id
    BY <2>1
  <2>3. y \in records'[q]
    BY <1>1, <1>2, <2>2, WithReplaces
  <2> QED
    BY <1>1, <2>1, <2>3
<1> QED
  BY <1>1, <1>3, <1>4 DEF QueueInv, EndedIsFinal

LEMMA QueueStep == ASSUME SoleQueue, QueueInv, [QNext]_qvars PROVE QueueInv'
<1>1. CASE UNCHANGED qvars
  BY <1>1 DEF qvars, QueueInv, QueueTyped, EndedIsFinal, OnePerId
<1>2. ASSUME NEW q \in Queues, OpenQueue(q) \/ KillQueue(q) PROVE QueueInv'
  <2>1. CASE OpenQueue(q)
    <3>1. /\ DOMAIN saving' = Queues /\ DOMAIN records' = Queues /\ UNCHANGED <<queueFile, ended>>
          /\ records'[q] = queueFile
          /\ \A r \in Queues \ {q} : records'[r] = records[r] /\ saving'[r] = saving[r]
      BY <2>1 DEF OpenQueue, QueueInv, QueueTyped
    <3> QED
      BY <3>1 DEF QueueInv, QueueTyped, EndedIsFinal, OnePerId
  <2>2. CASE KillQueue(q)
    <3>1. /\ DOMAIN saving' = Queues /\ DOMAIN records' = Queues /\ UNCHANGED <<queueFile, ended>>
          /\ records'[q] = {} /\ saving'[q].pc = "down"
          /\ \A r \in Queues \ {q} : records'[r] = records[r] /\ saving'[r] = saving[r]
      BY <2>2 DEF KillQueue, Closed, QueueInv, QueueTyped
    <3> QED
      BY <3>1 DEF QueueInv, QueueTyped, EndedIsFinal, OnePerId
  <2> QED
    BY <1>2, <2>1, <2>2
<1>3. ASSUME NEW q \in Queues, NEW saved \in BOOLEAN, Save(q, saved) PROVE QueueInv'
  <2>1. CASE ~ saved
    BY <1>3, <2>1 DEF Save, Ready, QueueInv, QueueTyped, EndedIsFinal, OnePerId
  <2>2. CASE saved
    <3>1. /\ queueFile' = records[q] /\ UNCHANGED records /\ \A r \in Queues : r = q
          /\ DOMAIN saving' = Queues /\ saving[q].pc = "save"
          /\ ended' = ended \cup {x.id : x \in {y \in records[q] : y.state \in TERMINAL_STATES}}
      BY <1>3, <2>2 DEF Save, QueueInv, QueueTyped, SoleQueue
    <3>2. QueueTyped'
      BY <3>1 DEF QueueInv, QueueTyped, OnePerId
    <3>3. ASSUME NEW d \in ended'
          PROVE  \E x \in records[q] : x.id = d /\ x.state \in TERMINAL_STATES
      BY <3>1 DEF QueueInv, EndedIsFinal
    <3> QED
      BY <3>1, <3>2, <3>3 DEF QueueInv, EndedIsFinal
  <2> QED
    BY <2>1, <2>2
<1>4. ASSUME NEW q \in Queues, NEW d \in Entries, NEW v \in Hashes, Enqueue(q, d, v)
      PROVE  QueueInv'
  <2> DEFINE x == [id |-> d, state |-> "QUEUED", payload |-> v, owner |-> Nobody]
  <2>1. saving[q].pc = "ready" /\ Keep(q, x, "NONE") /\ ~ Has(records[q], d) /\ x.id = d
       /\ DOMAIN x = QueueFields
    BY <1>4 DEF Enqueue, QueueFields
  <2>2. \A y \in records[q] : y.id # x.id
    BY <2>1 DEF Has
  <2> HIDE DEF x
  <2> QED
    BY <2>1, <2>2, KeepIsSafe
<1>5. ASSUME NEW q \in Queues, NEW d \in Entries, NEW to \in DirectiveState,
             NEW w \in Claimants, NEW v \in Hashes \cup {Nobody}, Transition(q, d, to, w, v)
      PROVE  QueueInv'
  <2> DEFINE x == Rec(records[q], d)
  <2>1. saving[q].pc = "ready" /\ x \in records[q] /\ x.id = d /\ x.state \notin TERMINAL_STATES
    BY <1>5, RecIsThere DEF Transition, MayMove
  <2>2. \A y \in records[q] : y.id = d => y.state \notin TERMINAL_STATES
    BY <2>1 DEF QueueInv, QueueTyped, OnePerId
  <2>3. PICK z : (z = [x EXCEPT !.state = "REJECTED"] \/ z = Moved(x, to, w)) /\ Keep(q, z, x.state)
    BY <1>5 DEF Transition
  <2>4. z.id = d /\ DOMAIN z = QueueFields
    <3>1. DOMAIN x = QueueFields
      BY <2>1 DEF QueueInv, QueueTyped
    <3> HIDE DEF x
    <3> QED
      BY <2>1, <2>3, <3>1 DEF Moved, QueueFields
  <2> QED
    BY <2>1, <2>2, <2>3, <2>4, KeepIsSafe
<1> QED
  BY <1>1, <1>2, <1>3, <1>4, <1>5 DEF QNext

LEMMA QueueInvHolds == SoleQueue => (QSpec => []QueueInv)
<1> SUFFICES ASSUME SoleQueue PROVE QSpec => []QueueInv
  OBVIOUS
<1>1. QInit => QueueInv
  BY DEF QInit, Closed, QueueInv, QueueTyped, EndedIsFinal, OnePerId
<1>2. QueueInv /\ [QNext]_qvars => QueueInv'
  BY QueueStep
<1> QED
  BY <1>1, <1>2, PTL DEF QSpec

\* With one queue instance at a time, a directive that ended in the file stays
\* as it ended (queue_integrity.py): whatever saves fail, processes are killed
\* or callers ask for, for any number of directives and claimants.
THEOREM EndsAreFinal == SoleQueue => (QSpec => EndedStays)
<1> SUFFICES ASSUME SoleQueue PROVE QSpec => EndedStays
  OBVIOUS
<1>1. QueueInv /\ [QNext]_qvars =>
        [\A d \in ended : Has(queueFile', d) /\ Rec(queueFile', d) = Rec(queueFile, d)]_qvars
  <2> SUFFICES ASSUME QueueInv, QNext, NEW d \in ended
               PROVE  Has(queueFile', d) /\ Rec(queueFile', d) = Rec(queueFile, d)
    OBVIOUS
  <2>1. PICK x \in queueFile :
            x.id = d /\ \A q \in Queues : saving[q].pc # "down" => x \in records[q]
    BY DEF QueueInv, EndedIsFinal
  <2>2. x \in queueFile' /\ OnePerId(queueFile')
    <3>1. CASE UNCHANGED queueFile
      BY <2>1, <3>1 DEF QueueInv, QueueTyped
    <3>2. ASSUME NEW q \in Queues, saving[q].pc = "save", queueFile' = records[q]
          PROVE  x \in queueFile' /\ OnePerId(queueFile')
      BY <2>1, <3>2 DEF QueueInv, QueueTyped
    <3>3. UNCHANGED queueFile \/ \E q \in Queues : saving[q].pc = "save" /\ queueFile' = records[q]
      <4>1. PICK q \in Queues :
              \/ OpenQueue(q) \/ KillQueue(q) \/ \E saved \in BOOLEAN : Save(q, saved)
              \/ \E e \in Entries :
                  \/ \E v \in Hashes : Enqueue(q, e, v)
                  \/ \E to \in DirectiveState, w \in Claimants, v \in Hashes \cup {Nobody} :
                         Transition(q, e, to, w, v)
        BY DEF QNext
      <4>2. CASE OpenQueue(q) \/ KillQueue(q)
        BY <4>2 DEF OpenQueue, KillQueue
      <4>3. CASE \E saved \in BOOLEAN : Save(q, saved)
        BY <4>3 DEF Save
      <4>4. ASSUME NEW e \in Entries, NEW v \in Hashes, Enqueue(q, e, v) PROVE UNCHANGED queueFile
        BY <4>4 DEF Enqueue, Keep
      <4>5. ASSUME NEW e \in Entries, NEW to \in DirectiveState, NEW w \in Claimants,
                   NEW v \in Hashes \cup {Nobody}, Transition(q, e, to, w, v)
            PROVE  UNCHANGED queueFile
        BY <4>5 DEF Transition, Keep
      <4> QED
        BY <4>1, <4>2, <4>3, <4>4, <4>5
    <3> QED
      BY <3>1, <3>2, <3>3
  <2>3. OnePerId(queueFile)
    BY DEF QueueInv, QueueTyped
  <2> QED
    BY <2>1, <2>2, <2>3, RecIsIt
<1> QED
  BY <1>1, QueueInvHolds, PTL DEF QSpec, EndedStays

(***************************************************************************)
(* Starts of a directive.  As long as its record, in the file or in a      *)
(* memory, can still come to EXECUTING, every start so far was followed by *)
(* a return to a human; but for the return that is about to be saved.      *)
(***************************************************************************)
Early == {"AUTHENTICATED", "QUEUED", "CLAIMED", "PRE_EXEC_VALIDATED", "DISPATCH_AUTHORIZED",
          "WAITING_HUMAN"}
AllEarly(recs, d) == \A x \in recs : x.id = d => x.state \in Early
Unstarted(d) == started[d] <= waited[d]
Returning(q, d) ==
    /\ saving[q].pc = "save" /\ saving[q].d = d
    /\ saving[q].from = "EXECUTING" /\ saving[q].to = "WAITING_HUMAN"
CallIsKept(q) ==
    /\ saving[q].d \in Entries
    /\ \E x \in records[q] : x.id = saving[q].d /\ x.state = saving[q].to
    /\ saving[q].to = "EXECUTING" =>
        Unstarted(saving[q].d) /\ started[saving[q].d] < MaxStarts
StartsInv ==
    /\ started \in [Entries -> Nat] /\ waited \in [Entries -> Nat]
    /\ \A d \in Entries : started[d] <= MaxStarts
    /\ StartedOnce
    /\ \A x \in queueFile : x.state \in DirectiveState
    /\ \A q \in Queues : \A x \in records[q] : x.state \in DirectiveState
    /\ \A d \in Entries : AllEarly(queueFile, d) => Unstarted(d)
    /\ \A q \in Queues, d \in Entries :
        (saving[q].pc # "down" /\ AllEarly(records[q], d)) => Unstarted(d) \/ Returning(q, d)
    /\ \A q \in Queues : saving[q].pc = "save" => CallIsKept(q)

\* A call that puts x in memory, where x is no longer early, or is the record of
\* a directive without a start, or is just on its way back to a human.
LEMMA KeepKeepsStarts ==
    ASSUME SoleQueue, QueueInv, StartsInv, NEW q \in Queues, saving[q].pc = "ready",
           NEW x, x.id \in Entries, x.state \in DirectiveState, NEW from, Keep(q, x, from),
           x.state \in Early =>
               Unstarted(x.id) \/ (from = "EXECUTING" /\ x.state = "WAITING_HUMAN"),
           x.state = "EXECUTING" => Unstarted(x.id) /\ started[x.id] < MaxStarts
    PROVE  StartsInv'
<1>1. /\ UNCHANGED <<queueFile, started, waited>> /\ records'[q] = With(records[q], x)
      /\ saving'[q] = [pc |-> "save", d |-> x.id, from |-> from, to |-> x.state]
      /\ \A r \in Queues : r = q
  BY DEF Keep, QueueInv, QueueTyped, SoleQueue
<1>2. x \in records'[q] /\ \A y \in records[q] : y.id # x.id => y \in records'[q]
  BY <1>1 DEF With
<1>3. CallIsKept(q)'
  BY <1>1, <1>2 DEF CallIsKept, Unstarted
<1>4. ASSUME NEW d \in Entries, AllEarly(records[q], d)' PROVE Unstarted(d)' \/ Returning(q, d)'
  <2>1. CASE d = x.id
    BY <1>1, <1>2, <1>4, <2>1 DEF AllEarly, Unstarted, Returning
  <2>2. CASE d # x.id
    <3>1. AllEarly(records[q], d)
      BY <1>2, <1>4, <2>2 DEF AllEarly
    <3>2. Unstarted(d)
      BY <3>1 DEF StartsInv, Returning
    <3> QED
      BY <1>1, <3>2 DEF Unstarted
  <2> QED
    BY <2>1, <2>2
<1>5. \A d \in Entries : AllEarly(queueFile, d)' => Unstarted(d)'
  BY <1>1 DEF StartsInv, AllEarly, Unstarted
<1>6. \A y \in records'[q] : y.state \in DirectiveState
  BY <1>1 DEF With, StartsInv
<1> QED
  BY <1>1, <1>3, <1>4, <1>5, <1>6 DEF StartsInv, StartedOnce

LEMMA StartsStep ==
    ASSUME SoleQueue, QueueInv, StartsInv, [QNext]_qvars PROVE StartsInv'
<1> USE QueueAssumption
<1>1. CASE UNCHANGED qvars
  BY <1>1 DEF qvars, StartsInv, StartedOnce, AllEarly, Unstarted, Returning, CallIsKept
<1>2. ASSUME NEW q \in Queues, OpenQueue(q) \/ KillQueue(q) PROVE StartsInv'
  <2>1. /\ UNCHANGED <<queueFile, started, waited>> /\ \A r \in Queues : r = q
        /\ saving'[q].pc # "save"
        /\ records'[q] \in {{}, queueFile}
        /\ saving'[q].pc # "down" => records'[q] = queueFile
    <3>1. CASE OpenQueue(q)
      BY <3>1 DEF OpenQueue, Ready, QueueInv, QueueTyped, SoleQueue
    <3>2. CASE KillQueue(q)
      BY <3>2 DEF KillQueue, Closed, QueueInv, QueueTyped, SoleQueue
    <3> QED
      BY <1>2, <3>1, <3>2
  <2>2. \A d \in Entries : AllEarly(queueFile, d)' => Unstarted(d)'
    BY <2>1 DEF StartsInv, AllEarly, Unstarted
  <2>3. \A d \in Entries : (saving'[q].pc # "down" /\ AllEarly(records[q], d)') => Unstarted(d)'
    BY <2>1, <2>2 DEF AllEarly
  <2> QED
    BY <2>1, <2>2, <2>3 DEF StartsInv, StartedOnce
<1>3. ASSUME NEW q \in Queues, NEW saved \in BOOLEAN, Save(q, saved) PROVE StartsInv'
  <2>0. PICK d : d = saving[q].d
    OBVIOUS
  <2>1. /\ UNCHANGED records /\ saving'[q].pc = "ready" /\ \A r \in Queues : r = q
        /\ queueFile' = records[q] \/ queueFile' = queueFile
        /\ CallIsKept(q) /\ saving[q].pc = "save" /\ d \in Entries
    BY <1>3, <2>0 DEF Save, Ready, QueueInv, QueueTyped, SoleQueue, StartsInv, CallIsKept
  <2>2. /\ started' \in [Entries -> Nat] /\ waited' \in [Entries -> Nat]
        /\ \A e \in Entries \ {d} : started'[e] = started[e] /\ waited'[e] = waited[e]
    BY <1>3, <2>0, <2>1 DEF Save, StartsInv
  <2>3. /\ waited'[d] \in {waited[d], waited[d] + 1}
        /\ \/ started'[d] = started[d]
           \/ saving[q].to = "EXECUTING" /\ started'[d] = started[d] + 1 /\ saved
    BY <1>3, <2>0, <2>1 DEF Save, StartsInv, Told
  <2>4. \A e \in Entries : started'[e] <= MaxStarts /\ started'[e] <= 1 + waited'[e]
    BY <2>0, <2>1, <2>2, <2>3 DEF StartsInv, StartedOnce, CallIsKept, Unstarted
  <2>5. ASSUME saving[q].to # "EXECUTING" PROVE Unstarted(d) => Unstarted(d)'
    BY <2>1, <2>2, <2>3, <2>5 DEF Unstarted, StartsInv
  <2>6. Returning(q, d) => Unstarted(d)'
    <3> SUFFICES ASSUME Returning(q, d) PROVE started'[d] <= waited'[d]
      BY DEF Unstarted
    <3>1. waited'[d] = IF waited[d] < MaxStarts THEN waited[d] + 1 ELSE waited[d]
      BY <1>3, <2>0, <2>1 DEF Save, Returning, StartsInv
    <3>2. started'[d] = started[d]
      BY <2>3 DEF Returning
    <3>3. started[d] <= MaxStarts /\ started[d] <= 1 + waited[d] /\ started[d] \in Nat /\ waited[d] \in Nat
      BY <2>1 DEF StartsInv, StartedOnce
    <3> QED
      BY <3>1, <3>2, <3>3
  <2>7. ASSUME NEW e \in Entries, AllEarly(records[q], e) PROVE Unstarted(e)'
    <3>1. saving[q].to = "EXECUTING" => e # d
      BY <2>0, <2>1, <2>7 DEF AllEarly, CallIsKept, Early
    <3>2. Unstarted(e) \/ Returning(q, e)
      BY <2>1, <2>7 DEF StartsInv
    <3> QED
      BY <2>0, <2>1, <2>2, <2>5, <2>6, <3>1, <3>2 DEF Unstarted, Returning
  <2>8. ASSUME NEW e \in Entries, AllEarly(queueFile, e)' PROVE Unstarted(e)'
    <3>1. CASE queueFile' = records[q]
      BY <2>7, <2>8, <3>1 DEF AllEarly
    <3>2. CASE queueFile' = queueFile /\ ~ saved
      <4>1. Unstarted(e)
        BY <2>8, <3>2 DEF StartsInv, AllEarly
      <4>2. started'[e] = started[e] /\ waited'[e] >= waited[e] /\ started[e] \in Nat /\ waited[e] \in Nat
        BY <2>2, <2>3, <3>2 DEF StartsInv
      <4> QED
        BY <2>2, <4>1, <4>2 DEF Unstarted
    <3> QED
      BY <1>3, <3>1, <3>2 DEF Save
  <2>9. \A e \in Entries : AllEarly(records[q], e)' => Unstarted(e)'
    BY <2>1, <2>7 DEF AllEarly
  <2> QED
    BY <2>1, <2>2, <2>4, <2>8, <2>9 DEF StartsInv, StartedOnce
<1>4. ASSUME NEW q \in Queues, NEW d \in Entries, NEW v \in Hashes, Enqueue(q, d, v)
      PROVE  StartsInv'
  <2>1. PICK x : /\ x.id = d /\ x.state = "QUEUED" /\ Keep(q, x, "NONE")
                 /\ x.state \in DirectiveState
                 /\ saving[q].pc = "ready" /\ ~ Has(records[q], d)
    BY <1>4 DEF Enqueue, DirectiveState, VALID_TRANSITIONS
  <2>2. AllEarly(records[q], d)
    BY <2>1 DEF Has, AllEarly
  <2>3. Unstarted(d)
    BY <2>1, <2>2 DEF StartsInv, Returning
  <2> QED
    BY <2>1, <2>3, KeepKeepsStarts
<1>5. ASSUME NEW q \in Queues, NEW d \in Entries, NEW to \in DirectiveState,
             NEW w \in Claimants, NEW v \in Hashes \cup {Nobody}, Transition(q, d, to, w, v)
      PROVE  StartsInv'
  <2>0. PICK x : x = Rec(records[q], d)
    OBVIOUS
  <2>1. /\ saving[q].pc = "ready" /\ x \in records[q] /\ x.id = d /\ DOMAIN x = QueueFields
        /\ MayMove(x, to) /\ (to = "EXECUTING" => started[d] < MaxStarts)
    BY <1>5, <2>0, RecIsThere DEF Transition, QueueInv, QueueTyped
  <2>2. PICK z : /\ z = [x EXCEPT !.state = "REJECTED"] \/ z = Moved(x, to, w)
                 /\ Keep(q, z, x.state)
    BY <1>5, <2>0 DEF Transition
  <2>3. z.id = d /\ (z.state = "REJECTED" \/ z.state = to)
    BY <2>1, <2>2 DEF Moved, QueueFields
  <2>4. x.state \in Early => Unstarted(d)
    <3> SUFFICES ASSUME x.state \in Early PROVE Unstarted(d)
      OBVIOUS
    <3>1. AllEarly(records[q], d)
      BY <2>1 DEF AllEarly, QueueInv, QueueTyped, OnePerId
    <3> QED
      BY <2>1, <3>1 DEF StartsInv, Returning
  <2>5. x.state \in DirectiveState
    BY <2>1 DEF StartsInv
  <2>6. /\ to \in Early => x.state \in Early \/ (x.state = "EXECUTING" /\ to = "WAITING_HUMAN")
        /\ to = "EXECUTING" => x.state \in Early
    BY <2>1, <2>5 DEF MayMove, VALID_TRANSITIONS, TERMINAL_STATES, DirectiveState, Early
  <2>7. "REJECTED" \notin Early /\ "REJECTED" # "EXECUTING" /\ "REJECTED" \in DirectiveState
    BY DEF Early, DirectiveState, TERMINAL_STATES
  <2> QED
    BY <2>1, <2>2, <2>3, <2>4, <2>6, <2>7, KeepKeepsStarts
<1> QED
  BY <1>1, <1>2, <1>3, <1>4, <1>5 DEF QNext

\* With one queue instance at a time, a worker is told to execute a directive at
\* most once, and once more for each time it was sent to a human: for any number
\* of directives, claimants, failed saves and kills (queue_integrity.py).
THEOREM DirectivesStartOnce == SoleQueue => (QSpec => []StartedOnce)
<1> SUFFICES ASSUME SoleQueue PROVE QSpec => []StartedOnce
  OBVIOUS
<1>1. ASSUME QInit PROVE StartsInv
  <2>1. /\ started = [d \in Entries |-> 0] /\ waited = [d \in Entries |-> 0] /\ queueFile = {}
        /\ \A q \in Queues : saving[q].pc = "down" /\ records[q] = {}
    BY <1>1 DEF QInit, Closed
  <2>2. \A d \in Entries : started[d] = 0 /\ waited[d] = 0
    BY <2>1
  <2> QED
    BY <2>1, <2>2, QueueAssumption DEF StartsInv, StartedOnce, Unstarted
<1>2. QueueInv /\ StartsInv /\ [QNext]_qvars => StartsInv'
  BY StartsStep
<1>3. StartsInv => StartedOnce
  BY DEF StartsInv
<1> QED
  BY <1>1, <1>2, <1>3, QueueInvHolds, PTL DEF QSpec

QueueRow == [id : Entries, state : DirectiveState, payload : Hashes, owner : Claimants \cup {Nobody}]
QTypes ==
    /\ queueFile \subseteq QueueRow /\ records \in [Queues -> SUBSET QueueRow]
    /\ DOMAIN saving = Queues
    /\ \A q \in Queues :
        /\ saving[q].pc \in {"down", "ready", "save"}
        /\ saving[q].pc = "save" => saving[q].d \in Entries
    /\ started \in [Entries -> Nat] /\ ended \subseteq Entries


\* A transition that is still to be saved is a whole record in memory (queue_integrity.py).
LEMMA KeepKeepsTypes ==
    ASSUME QTypes, NEW q \in Queues, NEW x \in QueueRow, NEW from, Keep(q, x, from)
    PROVE  QTypes'
<1>1. x.id \in Entries /\ With(records[q], x) \subseteq QueueRow
  BY DEF With, QTypes, QueueRow
<1> QED
  BY <1>1 DEF Keep, QTypes

\* Every record of the queue, in the file or in memory, is a whole one with a
\* state of queue_integrity.py, over failed saves, restarts and any number of instances.
THEOREM QueueTypes == QSpec => []QTypeOK
<1>1. QInit => QTypes
  <2> SUFFICES ASSUME QInit PROVE QTypes
    OBVIOUS
  <2>1. started \in [Entries -> Nat] /\ records \in [Queues -> SUBSET QueueRow]
    BY DEF QInit
  <2>2. DOMAIN saving = Queues /\ \A q \in Queues : saving[q].pc = "down"
    BY DEF QInit, Closed
  <2> QED
    BY <2>1, <2>2 DEF QInit, QTypes
<1>2. QTypes /\ [QNext]_qvars => QTypes'
  <2> SUFFICES ASSUME QTypes, [QNext]_qvars PROVE QTypes'
    OBVIOUS
  <2>1. CASE UNCHANGED qvars
    BY <2>1 DEF qvars, QTypes
  <2>2. ASSUME NEW q \in Queues, OpenQueue(q) \/ KillQueue(q) PROVE QTypes'
    <3>1. /\ \/ saving' = [saving EXCEPT ![q] = Ready] /\ records' = [records EXCEPT ![q] = queueFile]
             \/ saving' = [saving EXCEPT ![q] = Closed] /\ records' = [records EXCEPT ![q] = {}]
          /\ UNCHANGED <<queueFile, started, ended>>
      BY <2>2 DEF OpenQueue, KillQueue
    <3>2. records' \in [Queues -> SUBSET QueueRow]
      BY <3>1 DEF QTypes
    <3>3. Ready.pc = "ready" /\ Closed.pc = "down"
      BY DEF Ready, Closed
    <3> QED
      BY <3>1, <3>2, <3>3 DEF QTypes
  <2>3. ASSUME NEW q \in Queues, NEW saved \in BOOLEAN, Save(q, saved) PROVE QTypes'
    <3>1. /\ saving[q].d \in Entries /\ saving' = [saving EXCEPT ![q] = Ready] /\ UNCHANGED records
          /\ queueFile' \in {queueFile, records[q]}
      BY <2>3 DEF Save, QTypes
    <3>2. started' = started \/ started' = [started EXCEPT ![saving[q].d] = @ + 1]
      BY <2>3 DEF Save
    <3>3. started' \in [Entries -> Nat]
      BY <3>1, <3>2 DEF QTypes
    <3>4. ended' \subseteq Entries
      <4>1. \A y \in records[q] : y.id \in Entries
        BY DEF QTypes, QueueRow
      <4>2. ended' = ended \/ ended' = ended \cup {x.id : x \in {y \in records[q] : y.state \in TERMINAL_STATES}}
        BY <2>3 DEF Save
      <4> QED
        BY <4>1, <4>2 DEF QTypes
    <3> QED
      BY <3>1, <3>3, <3>4 DEF QTypes, Ready
  <2>4. ASSUME NEW q \in Queues, NEW d \in Entries, NEW v \in Hashes, Enqueue(q, d, v) PROVE QTypes'
    <3> DEFINE x == [id |-> d, state |-> "QUEUED", payload |-> v, owner |-> Nobody]
    <3>1. x \in QueueRow /\ Keep(q, x, "NONE")
      BY <2>4 DEF Enqueue, QueueRow, DirectiveState, VALID_TRANSITIONS
    <3> HIDE DEF x
    <3> QED
      BY <3>1, KeepKeepsTypes
  <2>5. ASSUME NEW q \in Queues, NEW d \in Entries, NEW to \in DirectiveState,
               NEW w \in Claimants, NEW v \in Hashes \cup {Nobody}, Transition(q, d, to, w, v)
        PROVE  QTypes'
    <3>0. PICK x : x = Rec(records[q], d)
      OBVIOUS
    <3>1. x \in QueueRow
      BY <2>5, <3>0, RecIsThere DEF Transition, QTypes
    <3>2. PICK z : (z = [x EXCEPT !.state = "REJECTED"] \/ z = Moved(x, to, w)) /\ Keep(q, z, x.state)
      BY <2>5, <3>0 DEF Transition
    <3>3. "REJECTED" \in DirectiveState
      BY DEF DirectiveState, TERMINAL_STATES
    <3>4. z \in QueueRow
      BY <3>1, <3>2, <3>3 DEF Moved, QueueRow
    <3> QED
      BY <3>2, <3>4, KeepKeepsTypes
  <2> QED
    BY <2>1, <2>2, <2>3, <2>4, <2>5 DEF QNext
<1>3. QTypes => QTypeOK
  BY DEF QTypes, QTypeOK, QueueRow
<1> QED
  BY <1>1, <1>2, <1>3, PTL DEF QSpec

(***************************************************************************)
(* Approvals.  A record, in the file or in a memory, is of a request that  *)
(* was made, and an approved one was signed; an executor works in the      *)
(* process of an engine that runs.                                         *)
(***************************************************************************)
Signature(x) ==
    \E s \in signed :
        s.id = x.id /\ s.approver \in Approvers /\ s.approver # s.actor /\ s.expires = x.expires
RecordOK(x) ==
    /\ DOMAIN x = {"id", "action", "state", "expires"} /\ x.expires \in Nat
    /\ [id |-> x.id, action |-> x.action] \in created
    /\ x.state = "APPROVED" => Signature(x)
RecordsOK ==
    /\ now \in Nat /\ DOMAIN held = ApprovalEngines /\ DOMAIN io = ApprovalEngines
    /\ \A x \in approvalsFile : RecordOK(x)
    /\ \A e \in ApprovalEngines : \A x \in held[e] : RecordOK(x)
WorkOK ==
    /\ DOMAIN work = Executors
    /\ \A w \in Executors : work[w].req # Nobody =>
        work[w].by \in ApprovalEngines /\ io[work[w].by] # "down"
ApprovalsInv == RecordsOK /\ WorkOK /\ ExecutedAsApproved

\* A record that is good stays good while only requests and signatures are added.
LEMMA RecordStaysOK ==
    ASSUME NEW x, RecordOK(x), created \subseteq created', signed \subseteq signed'
    PROVE  RecordOK(x)'
  BY DEF RecordOK, Signature

\* A call that stores a good record in an engine that runs, and touches no work
\* but to end it.
LEMMA StoreIsSafe ==
    ASSUME ApprovalsInv, NEW e \in ApprovalEngines, NEW x, Store(e, x), RecordOK(x)',
           created \subseteq created', signed \subseteq signed',
           UNCHANGED <<now, approvalsFile, executed>>,
           work' = work \/ \E w \in Executors : work' = [work EXCEPT ![w] = NoWork]
    PROVE  ApprovalsInv'
<1>1. /\ held'[e] = With(held[e], x) /\ io'[e] = "dirty"
      /\ DOMAIN held' = ApprovalEngines /\ DOMAIN io' = ApprovalEngines
      /\ \A f \in ApprovalEngines \ {e} : held'[f] = held[f] /\ io'[f] = io[f]
  BY DEF Store, ApprovalsInv, RecordsOK
<1>2. RecordsOK'
  <2>1. ASSUME NEW f \in ApprovalEngines, NEW y \in held'[f] PROVE RecordOK(y)'
    <3>1. y = x \/ y \in held[f]
      BY <1>1, <2>1 DEF With
    <3> QED
      BY <3>1, RecordStaysOK DEF ApprovalsInv, RecordsOK
  <2>2. ASSUME NEW y \in approvalsFile' PROVE RecordOK(y)'
    BY <2>2, RecordStaysOK DEF ApprovalsInv, RecordsOK
  <2> QED
    BY <1>1, <2>1, <2>2 DEF ApprovalsInv, RecordsOK
<1>5. WorkOK'
  BY <1>1 DEF ApprovalsInv, WorkOK, NoWork
<1>6. ExecutedAsApproved'
  BY DEF ApprovalsInv, ExecutedAsApproved
<1> QED
  BY <1>2, <1>5, <1>6 DEF ApprovalsInv

LEMMA ApprovalsStep == ASSUME ApprovalsInv, [ANext]_avars PROVE ApprovalsInv'
<1> USE ApprovalAssumption
<1>1. CASE UNCHANGED avars
  BY <1>1 DEF avars, ApprovalsInv, RecordsOK, RecordOK, Signature, WorkOK, ExecutedAsApproved
<1>2. CASE ATick
  BY <1>2 DEF ATick, Advance, ApprovalsInv, RecordsOK, RecordOK, Signature, WorkOK, ExecutedAsApproved
<1>3. ASSUME NEW e \in ApprovalEngines, LoadRecords(e) PROVE ApprovalsInv'
  <2>1. /\ UNCHANGED <<now, approvalsFile, work, created, signed, executed>> /\ io[e] = "down"
        /\ held'[e] = approvalsFile /\ io'[e] = "ready"
        /\ DOMAIN held' = ApprovalEngines /\ DOMAIN io' = ApprovalEngines
        /\ \A f \in ApprovalEngines \ {e} : held'[f] = held[f] /\ io'[f] = io[f]
    BY <1>3 DEF LoadRecords, ApprovalsInv, RecordsOK
  <2> QED
    BY <2>1 DEF ApprovalsInv, RecordsOK, RecordOK, Signature, WorkOK, ExecutedAsApproved
<1>4. ASSUME NEW e \in ApprovalEngines, TruncateAll(e) \/ WriteAll(e) PROVE ApprovalsInv'
  <2>1. /\ UNCHANGED <<now, held, work, created, signed, executed>>
        /\ approvalsFile' = {} \/ approvalsFile' = held[e]
        /\ DOMAIN io' = ApprovalEngines
        /\ \A f \in ApprovalEngines : io'[f] = "down" => io[f] = "down"
    BY <1>4 DEF TruncateAll, WriteAll, ApprovalsInv, RecordsOK
  <2> QED
    BY <2>1 DEF ApprovalsInv, RecordsOK, RecordOK, Signature, WorkOK, ExecutedAsApproved
<1>5. ASSUME NEW e \in ApprovalEngines, CrashEngine(e) PROVE ApprovalsInv'
  <2>1. /\ UNCHANGED <<now, created, signed, executed>>
        /\ approvalsFile' \subseteq held[e] \/ approvalsFile' = approvalsFile
        /\ DOMAIN held' = ApprovalEngines /\ DOMAIN io' = ApprovalEngines
        /\ held'[e] = {}
        /\ \A f \in ApprovalEngines \ {e} : held'[f] = held[f] /\ io'[f] = io[f]
        /\ work' = [w \in Executors |-> IF work[w].by = e THEN NoWork ELSE work[w]]
    BY <1>5 DEF CrashEngine, ApprovalsInv, RecordsOK
  <2>2. RecordsOK'
    BY <2>1 DEF ApprovalsInv, RecordsOK, RecordOK, Signature
  <2>3. WorkOK'
    BY <2>1 DEF ApprovalsInv, WorkOK, NoWork
  <2> QED
    BY <2>1, <2>2, <2>3 DEF ApprovalsInv, ExecutedAsApproved
<1>6. ASSUME NEW e \in ApprovalEngines, NEW r \in Requests, NEW a \in Actions, Create(e, r, a)
      PROVE  ApprovalsInv'
  <2>0. PICK x : x = [id |-> r, action |-> a, state |-> "REQUESTED", expires |-> now + ApprovalTtl]
    OBVIOUS
  <2>1. RecordOK(x)'
    BY <1>6, <2>0 DEF Create, RecordOK, ApprovalsInv, RecordsOK
  <2>2. /\ Store(e, x) /\ created \subseteq created'
        /\ UNCHANGED <<now, approvalsFile, work, signed, executed>>
    BY <1>6, <2>0 DEF Create
  <2> QED
    BY <2>1, <2>2, StoreIsSafe
<1>7. ASSUME NEW e \in ApprovalEngines, NEW r \in Requests, Expire(e, r) PROVE ApprovalsInv'
  <2>0. PICK x, z : x = Rec(held[e], r) /\ z = [x EXCEPT !.state = "EXPIRED"]
    OBVIOUS
  <2>1. RecordOK(x)
    BY <1>7, <2>0, RecIsThere DEF Expire, ApprovalsInv, RecordsOK
  <2>2. /\ Store(e, z) /\ UNCHANGED <<now, approvalsFile, work, created, signed, executed>>
    BY <1>7, <2>0 DEF Expire
  <2>3. RecordOK(z)'
    BY <2>0, <2>1, <2>2 DEF RecordOK
  <2> QED
    BY <2>2, <2>3, StoreIsSafe
<1>8. ASSUME NEW e \in ApprovalEngines, NEW r \in Requests,
             NEW to \in {"NOTIFIED", "APPROVED", "REJECTED", "REVOKED"}, NEW actor \in Actors,
             NEW approver \in Actors \cup Approvers, Turn(e, r, to, actor, approver)
      PROVE  ApprovalsInv'
  <2>0. PICK x, z, s :
            /\ x = Rec(held[e], r) /\ z = [x EXCEPT !.state = to]
            /\ s = [id |-> r, approver |-> approver, actor |-> actor, expires |-> x.expires]
    OBVIOUS
  <2>1. RecordOK(x) /\ x.id = r
    BY <1>8, <2>0, RecIsThere DEF Turn, ApprovalsInv, RecordsOK
  <2>2. /\ Store(e, z) /\ UNCHANGED <<now, approvalsFile, work, created, executed>>
        /\ signed' = IF to # "APPROVED" THEN signed ELSE signed \cup {s}
        /\ to = "APPROVED" => MaySign(approver, actor)
    BY <1>8, <2>0 DEF Turn
  <2>3. RecordOK(z)'
    <3>1. CASE to = "APPROVED"
      <4>1. s \in signed' /\ s.approver \in Approvers /\ s.approver # s.actor
            /\ s.id = z.id /\ s.expires = z.expires
        BY <2>0, <2>1, <2>2, <3>1 DEF RecordOK, MaySign
      <4> QED
        BY <2>0, <2>1, <2>2, <4>1 DEF RecordOK, Signature
    <3>2. CASE to # "APPROVED"
      BY <2>0, <2>1, <2>2, <3>2 DEF RecordOK
    <3> QED
      BY <3>1, <3>2
  <2>4. signed \subseteq signed'
    BY <2>2
  <2> QED
    BY <2>2, <2>3, <2>4, StoreIsSafe
<1>9. ASSUME NEW w \in Executors, NEW e \in ApprovalEngines, NEW r \in Requests,
             NEW a \in Actions, Authorise(w, e, r, a)
      PROVE  ApprovalsInv'
  <2> DEFINE x == Rec(held[e], r)
             n == [id |-> r, action |-> a, at |-> now, afterSpent |-> r \in spent]
  <2>1. RecordOK(x) /\ x.id = r /\ x.state = "APPROVED" /\ ~ Expired(x) /\ x.action = a
    BY <1>9, RecIsThere DEF Authorise, Revalidated, ApprovalsInv, RecordsOK
  <2>2. /\ UNCHANGED <<now, approvalsFile, held, io, created, signed>>
        /\ executed' = executed \cup {n} /\ io[e] = "ready" /\ Has(held[e], r)
        /\ work' = [work EXCEPT ![w] = [req |-> r, by |-> e]]
    BY <1>9 DEF Authorise
  <2>3. /\ [id |-> n.id, action |-> n.action] \in created
        /\ \E s \in signed :
            s.id = n.id /\ s.approver \in Approvers /\ s.approver # s.actor /\ n.at <= s.expires
    BY <2>1 DEF RecordOK, Signature, Expired, ApprovalsInv, RecordsOK
  <2> HIDE DEF x, n
  <2>4. ExecutedAsApproved'
    BY <2>2, <2>3 DEF ExecutedAsApproved, ApprovalsInv
  <2>5. RecordsOK' /\ WorkOK'
    BY <2>2 DEF ApprovalsInv, RecordsOK, RecordOK, Signature, WorkOK
  <2> QED
    BY <2>4, <2>5 DEF ApprovalsInv
<1>11. ASSUME NEW w \in Executors, NEW e \in ApprovalEngines, NEW r \in Requests, AuthoriseUnseen(w, e, r)
       PROVE  ApprovalsInv'
  <2>1. /\ UNCHANGED <<now, approvalsFile, held, io, created, signed, executed>> /\ io[e] = "ready"
        /\ work' = [work EXCEPT ![w] = [req |-> r, by |-> e]]
    BY <1>11 DEF AuthoriseUnseen
  <2>2. RecordsOK' /\ WorkOK'
    BY <2>1 DEF ApprovalsInv, RecordsOK, RecordOK, Signature, WorkOK
  <2> QED
    BY <2>1, <2>2 DEF ApprovalsInv, ExecutedAsApproved
<1>10. ASSUME NEW w \in Executors, Consume(w) PROVE ApprovalsInv'
  <2>0. PICK r, e, x : r = work[w].req /\ e = work[w].by /\ x = Rec(held[e], r)
    OBVIOUS
  <2>1. e \in ApprovalEngines /\ (Has(held[e], r) => RecordOK(x))
    BY <1>10, <2>0, RecIsThere DEF Consume, ApprovalsInv, WorkOK, RecordsOK
  <2>2. /\ UNCHANGED <<now, approvalsFile, created, signed, executed>>
        /\ work' = [work EXCEPT ![w] = NoWork]
        /\ \/ /\ Has(held[e], r)
              /\ \E st \in {"EXPIRED", "CONSUMED"} : Store(e, [x EXCEPT !.state = st])
           \/ UNCHANGED <<held, io>>
    BY <1>10, <2>0 DEF Consume
  <2>3. CASE UNCHANGED <<held, io>>
    BY <2>2, <2>3 DEF ApprovalsInv, RecordsOK, RecordOK, Signature, WorkOK, NoWork, ExecutedAsApproved
  <2>4. ASSUME Has(held[e], r), NEW st \in {"EXPIRED", "CONSUMED"}, Store(e, [x EXCEPT !.state = st])
        PROVE  ApprovalsInv'
    <3>0. PICK z : z = [x EXCEPT !.state = st]
      OBVIOUS
    <3>1. RecordOK(z)'
      BY <2>1, <2>2, <2>4, <3>0 DEF RecordOK
    <3>2. Store(e, z)
      BY <2>4, <3>0
    <3> QED
      BY <2>1, <2>2, <3>1, <3>2, StoreIsSafe
  <2> QED
    BY <2>2, <2>3, <2>4
<1> QED
  BY <1>1, <1>2, <1>3, <1>4, <1>5, <1>6, <1>7, <1>8, <1>9, <1>10, <1>11 DEF ANext

LEMMA ApprovalsInvHolds == ASpec => []ApprovalsInv
<1>1. AInit => ApprovalsInv
  BY DEF AInit, NoWork, ApprovalsInv, RecordsOK, WorkOK, ExecutedAsApproved
<1>2. ApprovalsInv /\ [ANext]_avars => ApprovalsInv'
  BY ApprovalsStep
<1> QED
  BY <1>1, <1>2, PTL DEF ASpec

\* What is executed under the record of an approval was asked for, approved by
\* somebody who may and on another one's call, and is done in time: for any
\* number of engines over the file, executors and requests, any crash, and
\* executors beside them that showed no record (capability_policy.py:306).
THEOREM ExecutionsAreApproved == ASpec => []ExecutedAsApproved
<1>1. ApprovalsInv => ExecutedAsApproved
  BY DEF ApprovalsInv
<1> QED
  BY <1>1, ApprovalsInvHolds, PTL

ATypes ==
    /\ now \in 0 .. MaxTime
    /\ created \subseteq [id : Requests, action : Actions] /\ spent \subseteq Requests
    /\ io \in [ApprovalEngines -> {"down", "ready", "dirty", "torn"}]
    /\ \A x \in approvalsFile : x.state \in ApprovalState
    /\ \A e \in ApprovalEngines : \A x \in held[e] : x.state \in ApprovalState


\* A record that is stored waits in memory for the rewriting of the file (approval_engine.py).
LEMMA StoreKeepsTypes ==
    ASSUME ApprovalsInv, ATypes, NEW e \in ApprovalEngines, NEW x, x.state \in ApprovalState, Store(e, x),
           created' \subseteq [id : Requests, action : Actions], UNCHANGED <<now, approvalsFile, spent>>
    PROVE  ATypes'
<1>1. \A y \in With(held[e], x) : y.state \in ApprovalState
  BY DEF With, ATypes
<1> QED
  BY <1>1 DEF Store, ATypes, ApprovalsInv, RecordsOK

\* Every approval in the file or in an engine is of a request, an action and a
\* state of approval_engine.py, though a crash leaves any part of the file.
THEOREM ApprovalTypes == ASpec => []ATypeOK
<1> USE ApprovalAssumption, ClockAssumption
<1>1. AInit => ATypes
  BY DEF AInit, ATypes
<1>2. ApprovalsInv /\ ATypes /\ [ANext]_avars => ATypes'
  <2> SUFFICES ASSUME ApprovalsInv, ATypes, [ANext]_avars PROVE ATypes'
    OBVIOUS
  <2>0. {"REQUESTED", "NOTIFIED", "APPROVED", "REJECTED", "REVOKED", "EXPIRED", "CONSUMED"} \subseteq ApprovalState
    BY DEF ApprovalState, VALID_APPROVAL_TRANSITIONS, TERMINAL_APPROVAL_STATES
  <2>1. CASE UNCHANGED avars
    BY <2>1 DEF avars, ATypes
  <2>2. CASE ATick
    BY <2>2 DEF ATick, Advance, ATypes
  <2>3. ASSUME NEW e \in ApprovalEngines, LoadRecords(e) \/ TruncateAll(e) \/ CrashEngine(e) PROVE ATypes'
    BY <2>3 DEF LoadRecords, TruncateAll, CrashEngine, ATypes, ApprovalsInv, RecordsOK
  <2>4. ASSUME NEW e \in ApprovalEngines, WriteAll(e) PROVE ATypes'
    <3>1. \A x \in held[e] : x.id \in Requests
      BY DEF ApprovalsInv, RecordsOK, RecordOK, ATypes
    <3> QED
      BY <2>4, <3>1 DEF WriteAll, ATypes
  <2>5. ASSUME NEW e \in ApprovalEngines, NEW r \in Requests, NEW a \in Actions, Create(e, r, a) PROVE ATypes'
    <3>1. PICK x : x = [id |-> r, action |-> a, state |-> "REQUESTED", expires |-> now + ApprovalTtl]
      OBVIOUS
    <3>2. Store(e, x) /\ created' = created \cup {[id |-> r, action |-> a]} /\ UNCHANGED <<now, approvalsFile, spent>>
      BY <2>5, <3>1 DEF Create
    <3>3. created' \subseteq [id : Requests, action : Actions] /\ x.state \in ApprovalState
      BY <2>0, <3>1, <3>2 DEF ATypes
    <3> QED
      BY <3>2, <3>3, StoreKeepsTypes
  <2>6. ASSUME NEW e \in ApprovalEngines, NEW x, DOMAIN x = {"id", "action", "state", "expires"},
               NEW st \in ApprovalState, Store(e, [x EXCEPT !.state = st]),
               UNCHANGED <<now, approvalsFile, spent, created>>
        PROVE  ATypes'
    <3>1. PICK z : z = [x EXCEPT !.state = st]
      OBVIOUS
    <3>2. z.state \in ApprovalState /\ Store(e, z) /\ created' \subseteq [id : Requests, action : Actions]
      BY <2>6, <3>1 DEF ATypes
    <3> QED
      BY <2>6, <3>2, StoreKeepsTypes
  <2>7. ASSUME NEW e \in ApprovalEngines, NEW r, Has(held[e], r)
        PROVE  DOMAIN Rec(held[e], r) = {"id", "action", "state", "expires"}
    BY <2>7, RecIsThere DEF ApprovalsInv, RecordsOK, RecordOK
  <2>8. ASSUME NEW e \in ApprovalEngines, NEW r \in Requests, Expire(e, r) PROVE ATypes'
    BY <2>0, <2>6, <2>7, <2>8 DEF Expire
  <2>9. ASSUME NEW e \in ApprovalEngines, NEW r \in Requests,
               NEW to \in {"NOTIFIED", "APPROVED", "REJECTED", "REVOKED"}, NEW actor \in Actors,
               NEW approver \in Actors \cup Approvers, Turn(e, r, to, actor, approver)
        PROVE  ATypes'
    BY <2>0, <2>6, <2>7, <2>9 DEF Turn
  <2>10. ASSUME NEW w \in Executors, NEW e \in ApprovalEngines, NEW r \in Requests,
                AuthoriseUnseen(w, e, r) \/ \E a \in Actions : Authorise(w, e, r, a)
         PROVE  ATypes'
    BY <2>10 DEF Authorise, AuthoriseUnseen, ATypes
  <2>11. ASSUME NEW w \in Executors, Consume(w) PROVE ATypes'
    <3> DEFINE e == work[w].by
               x == Rec(held[e], work[w].req)
    <3>1. e \in ApprovalEngines /\ (Has(held[e], work[w].req) => DOMAIN x = {"id", "action", "state", "expires"})
      BY <2>7, <2>11 DEF Consume, ApprovalsInv, WorkOK
    <3>2. /\ UNCHANGED <<now, approvalsFile, spent, created>>
          /\ \/ /\ Has(held[e], work[w].req)
                /\ \E st \in {"EXPIRED", "CONSUMED"} : Store(e, [x EXCEPT !.state = st])
             \/ UNCHANGED <<held, io>>
      BY <2>11 DEF Consume
    <3>3. CASE UNCHANGED <<held, io>>
      BY <3>2, <3>3 DEF ATypes
    <3> HIDE DEF e, x
    <3> QED
      BY <2>0, <2>6, <3>1, <3>2, <3>3
  <2> QED
    BY <2>1, <2>2, <2>3, <2>4, <2>5, <2>8, <2>9, <2>10, <2>11 DEF ANext
<1>3. ApprovalsInv /\ ATypes => ATypeOK
  <2> SUFFICES ASSUME ApprovalsInv, ATypes,
                      NEW recs \in {approvalsFile} \cup {held[e] : e \in ApprovalEngines}, NEW x \in recs
               PROVE  x.id \in Requests /\ x.action \in Actions /\ x.state \in ApprovalState
    BY DEF ATypes, ATypeOK
  <2>1. RecordOK(x) /\ x.state \in ApprovalState
    BY DEF ApprovalsInv, RecordsOK, ATypes
  <2> QED
    BY <2>1 DEF RecordOK, ATypes
<1> QED
  BY <1>1, <1>2, <1>3, ApprovalsInvHolds, PTL DEF ASpec

(***************************************************************************)
(* With one engine at a time, every record of a consumed approval, in the  *)
(* file or in memory, says CONSUMED, so nothing is authorised by it.  (Two *)
(* engines over one file would each have their own record.)                *)
(***************************************************************************)
SoleApprover == \A e, f \in ApprovalEngines : e = f
SpentSaysSo(recs) == \A x \in recs : x.id \in spent => x.state = "CONSUMED"
SpentInv ==
    /\ OnePerId(approvalsFile) /\ SpentSaysSo(approvalsFile)
    /\ \A e \in ApprovalEngines : OnePerId(held[e]) /\ SpentSaysSo(held[e])
    /\ \A r \in spent : \E c \in created : c.id = r
    /\ SpentIsSpent

\* A call that stores a record under an id of which no consumption was saved.
LEMMA StoreKeepsSpent ==
    ASSUME ApprovalsInv, SpentInv, NEW e \in ApprovalEngines, NEW x, Store(e, x),
           x.id \notin spent, created \subseteq created',
           UNCHANGED <<approvalsFile, spent, executed>>
    PROVE  SpentInv'
<1>1. /\ held'[e] = With(held[e], x)
      /\ \A f \in ApprovalEngines \ {e} : held'[f] = held[f]
  BY DEF Store, ApprovalsInv, RecordsOK
<1>2. OnePerId(held'[e])
  BY <1>1, WithReplaces DEF SpentInv
<1>3. \A y \in held'[e] : y.id \in spent => y.state = "CONSUMED"
  BY <1>1 DEF SpentInv, SpentSaysSo, With
<1> QED
  BY <1>1, <1>2, <1>3 DEF SpentInv, SpentSaysSo, SpentIsSpent, OnePerId

\* The record a call changes is there, and is not spent when it is not terminal.
LEMMA OpenIsUnspent ==
    ASSUME SpentInv, NEW e \in ApprovalEngines, NEW r, Has(held[e], r),
           Rec(held[e], r).state \notin TERMINAL_APPROVAL_STATES
    PROVE  r \notin spent
  BY RecIsThere DEF SpentInv, SpentSaysSo, TERMINAL_APPROVAL_STATES

LEMMA SpentStep ==
    ASSUME SoleApprover, ApprovalsInv, SpentInv, [ANext]_avars PROVE SpentInv'
<1>1. CASE UNCHANGED avars
  BY <1>1 DEF avars, SpentInv, SpentSaysSo, SpentIsSpent, OnePerId
<1>2. CASE ATick
  BY <1>2 DEF ATick, SpentInv, SpentSaysSo, SpentIsSpent, OnePerId
<1>3. ASSUME NEW e \in ApprovalEngines, LoadRecords(e) PROVE SpentInv'
  <2>1. /\ UNCHANGED <<approvalsFile, created, spent, executed>>
        /\ held'[e] = approvalsFile
        /\ \A f \in ApprovalEngines \ {e} : held'[f] = held[f]
    BY <1>3 DEF LoadRecords, ApprovalsInv, RecordsOK
  <2> QED
    BY <2>1 DEF SpentInv, SpentSaysSo, SpentIsSpent, OnePerId
<1>4. ASSUME NEW e \in ApprovalEngines, TruncateAll(e) PROVE SpentInv'
  BY <1>4 DEF TruncateAll, SpentInv, SpentSaysSo, SpentIsSpent, OnePerId
<1>5. ASSUME NEW e \in ApprovalEngines, WriteAll(e) PROVE SpentInv'
  <2>1. /\ UNCHANGED <<held, created, executed>> /\ approvalsFile' = held[e]
        /\ spent' = spent \cup {x.id : x \in {y \in held[e] : y.state = "CONSUMED"}}
        /\ \A f \in ApprovalEngines : f = e
    BY <1>5 DEF WriteAll, SoleApprover
  <2>2. \A x \in held[e] : x.id \in spent' => x.state = "CONSUMED"
    <3>1. \A x \in held[e] : x.id \in spent => x.state = "CONSUMED"
      BY DEF SpentInv, SpentSaysSo
    <3>2. \A x, y \in held[e] : x.id = y.id => x = y
      BY DEF SpentInv, OnePerId
    <3> QED
      BY <2>1, <3>1, <3>2
  <2>3. ASSUME NEW r \in spent' PROVE \E c \in created : c.id = r
    <3>1. CASE r \in spent
      BY <3>1 DEF SpentInv
    <3>2. CASE r \notin spent
      <4>1. PICK y \in held[e] : y.id = r
        BY <2>1, <3>2
      <4>2. [id |-> y.id, action |-> y.action] \in created
        BY <4>1 DEF ApprovalsInv, RecordsOK, RecordOK
      <4> QED
        BY <4>1, <4>2
    <3> QED
      BY <3>1, <3>2
  <2> QED
    BY <2>1, <2>2, <2>3 DEF SpentInv, SpentSaysSo, SpentIsSpent, OnePerId
<1>6. ASSUME NEW e \in ApprovalEngines, CrashEngine(e) PROVE SpentInv'
  <2>1. /\ UNCHANGED <<created, spent, executed>>
        /\ approvalsFile' \subseteq held[e] \/ approvalsFile' = approvalsFile
        /\ held'[e] = {}
        /\ \A f \in ApprovalEngines \ {e} : held'[f] = held[f]
    BY <1>6 DEF CrashEngine, ApprovalsInv, RecordsOK
  <2> QED
    BY <2>1 DEF SpentInv, SpentSaysSo, SpentIsSpent, OnePerId
<1>7. ASSUME NEW e \in ApprovalEngines, NEW r \in Requests, NEW a \in Actions, Create(e, r, a)
      PROVE  SpentInv'
  <2>0. PICK x : x = [id |-> r, action |-> a, state |-> "REQUESTED", expires |-> now + ApprovalTtl]
    OBVIOUS
  <2>1. /\ Store(e, x) /\ x.id = r /\ r \notin spent /\ created \subseteq created'
        /\ UNCHANGED <<approvalsFile, spent, executed>>
    BY <1>7, <2>0 DEF Create, SpentInv
  <2> QED
    BY <2>1, StoreKeepsSpent
<1>8. ASSUME NEW e \in ApprovalEngines, NEW r \in Requests,
             \/ Expire(e, r)
             \/ \E to \in {"NOTIFIED", "APPROVED", "REJECTED", "REVOKED"}, actor \in Actors,
                   approver \in Actors \cup Approvers : Turn(e, r, to, actor, approver)
      PROVE  SpentInv'
  <2>0. PICK x : x = Rec(held[e], r)
    OBVIOUS
  <2>1. /\ Has(held[e], r) /\ x.state \notin TERMINAL_APPROVAL_STATES
        /\ \E to : Store(e, [x EXCEPT !.state = to])
        /\ UNCHANGED <<approvalsFile, created, spent, executed>>
    BY <1>8, <2>0 DEF Expire, Turn, MayTurn
  <2>2. x.id = r /\ x \in held[e] /\ r \notin spent
    BY <2>0, <2>1, RecIsThere, OpenIsUnspent
  <2>4. "id" \in DOMAIN x
    BY <2>2 DEF ApprovalsInv, RecordsOK, RecordOK
  <2>3. PICK z : Store(e, z) /\ z.id = r
    BY <2>1, <2>2, <2>4
  <2> QED
    BY <2>1, <2>2, <2>3, StoreKeepsSpent
<1>9. ASSUME NEW w \in Executors, NEW e \in ApprovalEngines, NEW r \in Requests,
             NEW a \in Actions, Authorise(w, e, r, a)
      PROVE  SpentInv'
  <2>1. Has(held[e], r) /\ Rec(held[e], r).state = "APPROVED"
    BY <1>9 DEF Authorise, Revalidated
  <2>2. r \notin spent
    BY <2>1, OpenIsUnspent DEF TERMINAL_APPROVAL_STATES
  <2>3. PICK n : n = [id |-> r, action |-> a, at |-> now, afterSpent |-> r \in spent]
    OBVIOUS
  <2>4. ~ n.afterSpent
    BY <2>2, <2>3
  <2>5. executed' = executed \cup {n} /\ UNCHANGED <<approvalsFile, held, created, spent>>
    BY <1>9, <2>3 DEF Authorise
  <2> QED
    BY <2>4, <2>5 DEF SpentInv, SpentSaysSo, SpentIsSpent, OnePerId
<1>11. ASSUME NEW w \in Executors, NEW e \in ApprovalEngines, NEW r \in Requests, AuthoriseUnseen(w, e, r)
       PROVE  SpentInv'
  BY <1>11 DEF AuthoriseUnseen, SpentInv, SpentSaysSo, SpentIsSpent, OnePerId
<1>10. ASSUME NEW w \in Executors, Consume(w) PROVE SpentInv'
  <2>0. PICK r, e, x : r = work[w].req /\ e = work[w].by /\ x = Rec(held[e], r)
    OBVIOUS
  <2>2. CASE UNCHANGED <<held, io>>
    BY <1>10, <2>2 DEF Consume, SpentInv, SpentSaysSo, SpentIsSpent, OnePerId
  <2>3. CASE ~ UNCHANGED <<held, io>>
    <3>1. /\ x.state \notin TERMINAL_APPROVAL_STATES /\ Has(held[e], r)
          /\ \E to : Store(e, [x EXCEPT !.state = to])
          /\ UNCHANGED <<approvalsFile, created, spent, executed>>
      BY <1>10, <2>0, <2>3 DEF Consume, Consumable, MayTurn
    <3>4. e \in ApprovalEngines
      BY <1>10, <2>0 DEF Consume, ApprovalsInv, WorkOK
    <3>5. x \in held[e] /\ x.id = r
      BY <2>0, <3>1, RecIsThere
    <3>6. x.id = r /\ "id" \in DOMAIN x
      BY <3>4, <3>5 DEF ApprovalsInv, RecordsOK, RecordOK
    <3>2. PICK z : Store(e, z) /\ z.id = r
      BY <3>1, <3>6
    <3>3. r \notin spent
      BY <2>0, <3>1, <3>4, OpenIsUnspent
    <3> QED
      BY <3>1, <3>2, <3>3, <3>4, StoreKeepsSpent
  <2> QED
    BY <2>2, <2>3
<1> QED
  BY <1>1, <1>2, <1>3, <1>4, <1>5, <1>6, <1>7, <1>8, <1>9, <1>10, <1>11 DEF ANext

\* With one approval engine at a time, no execution is authorised by an approval
\* once its consumption is in the file (approval_engine.py:232): for any number
\* of executors that hold it at once, any crash and any part of the file lost.
THEOREM SpentApprovalsStaySpent == SoleApprover => (ASpec => []SpentIsSpent)
<1> SUFFICES ASSUME SoleApprover PROVE ASpec => []SpentIsSpent
  OBVIOUS
<1>1. AInit => SpentInv
  BY DEF AInit, SpentInv, SpentSaysSo, SpentIsSpent, OnePerId
<1>2. ApprovalsInv /\ SpentInv /\ [ANext]_avars => SpentInv'
  BY SpentStep
<1>3. SpentInv => SpentIsSpent
  BY DEF SpentInv
<1> QED
  BY <1>1, <1>2, <1>3, ApprovalsInvHolds, PTL DEF ASpec

(***************************************************************************)
(* The certificate.  The reads of a derivation are in the order of the     *)
(* branch, and what it has certified so far, or returns, is about them.    *)
(***************************************************************************)
Deriving == {"base", "final", "post", "conclude", "03", "04"}
CallTyped ==
    /\ head \in Nat
    /\ DOMAIN findings = {"governance", "clean", "reviewed", "certified"}
    /\ call = NoDerivation => result = Nobody
    /\ call.pc \in Deriving =>
        /\ result = Nobody
        /\ DOMAIN call = {"pc", "block", "code", "evidence", "pre", "data", "final", "post", "failed", "there"}
        /\ {call.code, call.evidence} \subseteq History \cup {Nobody}
ReadsInOrder ==
    /\ call.pc \in Deriving /\ call.pre # Nobody => call.pre \in Nat /\ call.pre <= head
    /\ call.pc \in {"post", "conclude", "03", "04"} /\ call.final # Nobody =>
        /\ call.final \in Nat /\ call.final <= head
        /\ call.pre # Nobody => call.pre <= call.final
    /\ call.pc \in {"conclude", "03", "04"} =>
        /\ call.there \in Nat /\ call.there <= head
        /\ call.final # Nobody => call.final <= call.there
        /\ call.post = Nobody \/ call.post = call.there \/ (call.failed /\ call.post = call.final)
OneHead ==
    /\ call.final = Pre /\ call.final \in Signed
    /\ ~ call.failed => call.there = call.final
    /\ Tree[call.final] = Tree[call.code] /\ Tree[call.final] = Tree[call.evidence]
    /\ call.code <= call.final /\ call.evidence < call.final
CertifiedOfOneHead ==
    (result = "PASS" \/ (call.pc \in {"03", "04"} /\ findings.certified))
        => call.data \notin {Nobody, call.pre} \/ OneHead
CertificateInv == CallTyped /\ ReadsInOrder /\ CertifiedOfOneHead

\* What the rule of block 1C concludes from reads that are in order.
LEMMA PassIsOfOneHead ==
    ASSUME CallTyped, ReadsInOrder, call.pc = "conclude", call.data \in {Nobody, call.pre},
           NEW faults, BlockStatus(faults) = "PASS"
    PROVE  OneHead
<1> USE CertificationAssumption
<1>1. FirstHalf /\ SecondHalf(faults)
  BY DEF BlockStatus
<1>2. Pre = call.post /\ call.post # Nobody /\ call.final # Nobody
  BY <1>1 DEF SecondHalf, Unchanged
<1>3. /\ call.final = Pre /\ call.final \in Nat
      /\ ~ call.failed => call.there = call.final
  BY <1>2 DEF Pre, ReadsInOrder, Deriving
<1>4. call.final \in Signed
  BY <1>1, <1>3 DEF SecondHalf, Shown, Pre
<1>5. {call.code, call.evidence} \subseteq History /\ call.evidence # call.final
  BY <1>1 DEF FirstHalf, NotSelfReferential, Given, CallTyped, Deriving
<1>6. /\ call.code <= call.final /\ call.evidence <= call.final
      /\ call.evidence # Stray
      /\ Tree[call.final] = Tree[call.code] /\ Tree[call.final] = Tree[call.evidence]
  BY <1>1 DEF SecondHalf, Ancestor
<1>7. call.evidence < call.final
  BY <1>3, <1>5, <1>6 DEF History
<1> QED
  BY <1>3, <1>4, <1>6, <1>7 DEF OneHead

LEMMA CertificateStep == ASSUME CertificateInv, [DNext]_dvars PROVE CertificateInv'
<1> USE CertificationAssumption
<1> USE DEF CertificateInv, CallTyped, ReadsInOrder, CertifiedOfOneHead, OneHead, Pre, Deriving
<1>1. CASE UNCHANGED dvars
  BY <1>1 DEF dvars
<1>2. CASE PublishCommit
  BY <1>2 DEF PublishCommit
<1>3. ASSUME NEW block \in {"1c", "03", "04"}, NEW asked \in Asked,
             NEW pre \in (Old .. head) \cup {Nobody}, NEW data \in (Old .. head) \cup {Nobody},
             Derive(block, asked, pre, data)
      PROVE  CertificateInv'
  BY <1>3 DEF Derive, Nothing
<1>4. ASSUME NEW s \in Snapshots, NEW clean \in BOOLEAN, NEW reviewed \in BOOLEAN,
             ReadBase(s, clean, reviewed)
      PROVE  CertificateInv'
  BY <1>4 DEF ReadBase
<1>5. ASSUME NEW answer \in Heads \cup {Nobody}, ReadFinal(answer) PROVE CertificateInv'
  BY <1>5 DEF ReadFinal
<1>6. ASSUME NEW answer \in Heads \cup {Nobody}, NEW failed \in BOOLEAN, ReadPost(answer, failed)
      PROVE  CertificateInv'
  BY <1>6 DEF ReadPost
<1>7. ASSUME NEW faults \in CommandFaults, Conclude1C(faults) PROVE CertificateInv'
  <2>1. BlockStatus(faults) = "PASS" => call.data \notin {Nobody, call.pre} \/ OneHead
    BY <1>7, PassIsOfOneHead DEF Conclude1C
  <2>2. /\ call' = [call EXCEPT !.pc = "idle"] \/ call' = [call EXCEPT !.pc = "03"]
        /\ IF call'.pc = "idle" THEN result' = BlockStatus(faults) ELSE result' = result
        /\ findings' = [findings EXCEPT !.certified = BlockStatus(faults) = "PASS"]
        /\ UNCHANGED head /\ call.pc = "conclude"
    BY <1>7 DEF Conclude1C, Return, GoOnWith
  <2>3. call' # NoDerivation
    BY <2>2 DEF NoDerivation
  <2> QED
    BY <2>1, <2>2, <2>3
<1>8. ASSUME NEW implemented \in BOOLEAN, NEW reviewed \in BOOLEAN,
             Conclude03(implemented, reviewed)
      PROVE  CertificateInv'
  <2>1. PICK verdict \in {"PASS", "FAIL", "CORRECTION_REQUIRED"} :
            /\ verdict = "PASS" => findings.certified
            /\ call' = [call EXCEPT !.pc = "idle"] \/ call' = [call EXCEPT !.pc = "04"]
            /\ IF call'.pc = "idle" THEN result' = verdict ELSE result' = result
            /\ findings' = [findings EXCEPT !.certified = verdict = "PASS"]
            /\ UNCHANGED head /\ call.pc = "03"
    BY <1>8 DEF Conclude03, Return, GoOnWith
  <2>2. call' # NoDerivation
    BY <2>1 DEF NoDerivation
  <2>3. CASE call' = [call EXCEPT !.pc = "idle"]
    BY <2>1, <2>2, <2>3
  <2>4. CASE call' = [call EXCEPT !.pc = "04"]
    BY <2>1, <2>2, <2>4
  <2> QED
    BY <2>1, <2>3, <2>4
<1>9. CASE Conclude04
  <2>1. call' = [call EXCEPT !.pc = "idle"] /\ call.pc = "04"
    BY <1>9 DEF Conclude04, Return
  <2>2. call' # NoDerivation
    BY <2>1 DEF NoDerivation
  <2> QED
    BY <1>9, <2>1, <2>2 DEF Conclude04, Return
<1>10. CASE Answered
  BY <1>10 DEF Answered, NoDerivation, Nothing
<1> QED
  BY <1>1, <1>2, <1>3, <1>4, <1>5, <1>6, <1>7, <1>8, <1>9, <1>10 DEF DNext

LEMMA CertificateInvHolds == DSpec => []CertificateInv
<1>1. DInit => CertificateInv
  BY CertificationAssumption DEF DInit, NoDerivation, Nothing, CertificateInv, CallTyped,
     ReadsInOrder, CertifiedOfOneHead, Deriving
<1>2. CertificateInv /\ [DNext]_dvars => CertificateInv'
  BY CertificateStep
<1> QED
  BY <1>1, <1>2, PTL DEF DSpec

\* A certificate that is granted (github_governance_truth.py:756) names one head,
\* signed, containing the code and the evidence it is about, and still the head
\* at the second read if that read did not raise (:631): for any history of the
\* branch, any commits published meanwhile and any commands that fail.
THEOREM CertificatesNameOneHead == DSpec => []CertificateNamesOneHead
<1>1. CertificateInv => CertificateNamesOneHead
  BY DEF CertificateInv, CertifiedOfOneHead, CertificateNamesOneHead, OneHead
<1> QED
  BY <1>1, CertificateInvHolds, PTL

Verdicts == {"PASS", "FAIL", "CORRECTION_REQUIRED", "raised"}
DerivationTyped(c) ==
    /\ DOMAIN c = {"pc", "block", "code", "evidence", "pre", "data", "final", "post", "failed", "there"}
    /\ c.pc \in {"idle"} \cup Deriving
    /\ c.pre \in Heads \cup {Nobody} /\ c.data \in Heads \cup {Nobody}
    /\ c.final \in Heads \cup {Nobody} /\ c.post \in Heads \cup {Nobody}
    /\ c.there \in Heads \cup {Nobody}
FindingsTyped == findings \in [governance : BOOLEAN, clean : BOOLEAN, reviewed : BOOLEAN, certified : BOOLEAN]
DTypes ==
    /\ head \in Heads /\ FindingsTyped /\ result \in Verdicts \cup {Nobody}
    /\ call = NoDerivation \/ DerivationTyped(call)

\* A conclusion changes a finding, the result and where the derivation is.
LEMMA ConclusionKeepsTypes ==
    ASSUME DTypes, call.pc # "idle", NEW pc \in {"idle"} \cup Deriving, call' = [call EXCEPT !.pc = pc],
           NEW b \in BOOLEAN, findings' = [findings EXCEPT !.certified = b] \/ findings' = findings,
           NEW verdict \in Verdicts, result' = verdict \/ result' = result, head' = head
    PROVE  DTypes'
<1>1. DerivationTyped(call)
  BY DEF DTypes, NoDerivation
<1>2. DerivationTyped(call')
  BY <1>1 DEF DerivationTyped
<1>3. FindingsTyped'
  BY DEF DTypes, FindingsTyped
<1> QED
  BY <1>2, <1>3 DEF DTypes

\* A derivation of github_governance_truth.py has read heads of main or nothing,
\* and ends with one of its verdicts.
THEOREM CertificationTypes == DSpec => []DTypeOK
<1> USE CertificationAssumption
<1>1. DInit => DTypes
  <2>1. Old \in Heads
    BY DEF Heads
  <2>2. Nothing \in [governance : BOOLEAN, clean : BOOLEAN, reviewed : BOOLEAN, certified : BOOLEAN]
    BY DEF Nothing
  <2> QED
    BY <2>1, <2>2 DEF DInit, DTypes, FindingsTyped
<1>2. DTypes /\ [DNext]_dvars => DTypes'
  <2> SUFFICES ASSUME DTypes, [DNext]_dvars PROVE DTypes'
    OBVIOUS
  <2>1. CASE UNCHANGED dvars
    BY <2>1 DEF dvars, DTypes, DerivationTyped, FindingsTyped
  <2>2. CASE PublishCommit
    <3>1. head' \in Heads /\ UNCHANGED <<call, findings, result>>
      BY <2>2 DEF PublishCommit, Heads, DTypes
    <3> QED
      BY <3>1 DEF DTypes, DerivationTyped, FindingsTyped
  <2>3. ASSUME NEW block \in {"1c", "03", "04"}, NEW asked \in Asked,
               NEW pre \in (Old .. head) \cup {Nobody}, NEW data \in (Old .. head) \cup {Nobody},
               Derive(block, asked, pre, data)
        PROVE  DTypes'
    <3>1. {pre, data, Nobody} \subseteq Heads \cup {Nobody}
      BY DEF Heads, DTypes
    <3>2. DerivationTyped(call')
      <4>1. /\ call' = [pc |-> "base", block |-> block, code |-> asked.code, evidence |-> asked.evidence,
                         pre |-> pre, data |-> data, final |-> Nobody, post |-> Nobody,
                         failed |-> FALSE, there |-> Nobody]
        BY <2>3 DEF Derive
      <4> QED
        BY <3>1, <4>1 DEF DerivationTyped, Deriving
    <3>3. FindingsTyped'
      BY <2>3 DEF Derive, DTypes, FindingsTyped
    <3> QED
      BY <2>3, <3>2, <3>3 DEF Derive, DTypes
  <2>4. ASSUME NEW s \in Snapshots, NEW clean \in BOOLEAN, NEW reviewed \in BOOLEAN,
               ReadBase(s, clean, reviewed)
        PROVE  DTypes'
    <3>1. PICK b \in BOOLEAN : b = (GovernanceStatus(s) = "PASS")
      OBVIOUS
    <3>2. findings' = [findings EXCEPT !.governance = b, !.clean = clean, !.reviewed = reviewed]
      BY <2>4, <3>1 DEF ReadBase
    <3>3. FindingsTyped'
      BY <3>2 DEF DTypes, FindingsTyped
    <3>4. DerivationTyped(call')
      BY <2>4 DEF ReadBase, DTypes, NoDerivation, DerivationTyped, Deriving
    <3> QED
      BY <2>4, <3>3, <3>4 DEF ReadBase, DTypes
  <2>5. ASSUME NEW answer \in Heads \cup {Nobody}, NEW failed \in BOOLEAN,
               ReadFinal(answer) \/ ReadPost(answer, failed)
        PROVE  DTypes'
    <3>1. DerivationTyped(call) /\ head \in Heads
      BY <2>5 DEF ReadFinal, ReadPost, NoDerivation, DTypes
    <3>2. DerivationTyped(call')
      <4>1. CASE ReadFinal(answer)
        BY <3>1, <4>1 DEF ReadFinal, DerivationTyped, Deriving
      <4>2. CASE ReadPost(answer, failed)
        BY <3>1, <4>2 DEF ReadPost, DerivationTyped, Deriving
      <4> QED
        BY <2>5, <4>1, <4>2
    <3>3. UNCHANGED <<head, findings, result>>
      BY <2>5 DEF ReadFinal, ReadPost
    <3> QED
      BY <3>2, <3>3 DEF DTypes, FindingsTyped
  <2>6. ASSUME NEW faults \in CommandFaults, Conclude1C(faults) PROVE DTypes'
    <3>1. PICK b \in BOOLEAN : b = (BlockStatus(faults) = "PASS")
      OBVIOUS
    <3>2. /\ call' = [call EXCEPT !.pc = "idle"] \/ call' = [call EXCEPT !.pc = "03"]
          /\ result' = BlockStatus(faults) \/ result' = result
          /\ findings' = [findings EXCEPT !.certified = b]
          /\ UNCHANGED head /\ call.pc = "conclude"
      BY <2>6, <3>1 DEF Conclude1C, Return, GoOnWith
    <3>3. BlockStatus(faults) \in Verdicts
      BY DEF BlockStatus, Verdicts
    <3> QED
      BY <3>2, <3>3, ConclusionKeepsTypes DEF Deriving
  <2>7. ASSUME NEW implemented \in BOOLEAN, NEW reviewed \in BOOLEAN,
               Conclude03(implemented, reviewed)
        PROVE  DTypes'
    <3>1. PICK verdict \in Verdicts :
            /\ call' = [call EXCEPT !.pc = "idle"] \/ call' = [call EXCEPT !.pc = "04"]
            /\ result' = verdict \/ result' = result
            /\ findings' = [findings EXCEPT !.certified = verdict = "PASS"]
            /\ UNCHANGED head /\ call.pc = "03"
      BY <2>7 DEF Conclude03, Return, GoOnWith, Verdicts
    <3>2. PICK b \in BOOLEAN : b = (verdict = "PASS")
      OBVIOUS
    <3> QED
      BY <3>1, <3>2, ConclusionKeepsTypes DEF Deriving
  <2>8. CASE Conclude04
    <3>1. PICK verdict \in Verdicts :
            /\ call' = [call EXCEPT !.pc = "idle"] /\ result' = verdict
            /\ UNCHANGED <<head, findings>> /\ call.pc = "04"
      BY <2>8 DEF Conclude04, Return, Verdicts
    <3> QED
      BY <3>1, ConclusionKeepsTypes
  <2>9. CASE Answered
    <3>1. FindingsTyped'
      BY <2>9 DEF Answered, Nothing, FindingsTyped
    <3> QED
      BY <2>9, <3>1 DEF Answered, DTypes
  <2> QED
    BY <2>1, <2>2, <2>3, <2>4, <2>5, <2>6, <2>7, <2>8, <2>9 DEF DNext
<1>3. DTypes => DTypeOK
  BY DEF DTypes, DTypeOK, FindingsTyped, DerivationTyped, Deriving, Verdicts
<1> QED
  BY <1>1, <1>2, <1>3, PTL DEF DSpec

(***************************************************************************)
(* The composition.  The components share the clock and nothing else: in   *)
(* every step one of them moves, and the others stutter or see the clock   *)
(* advance, which each of them allows.  So a behaviour of the whole is one *)
(* of each component, and what is proved of a component holds of it.       *)
(***************************************************************************)
\* An offer is gone with the next step, so none is pending where the provider rests.
NothingOffered == focus # "provider" => offered = NoOffer
ClockMoves == UNCHANGED now \/ Advance

\* The clock of every component that has one stands still or advances.
LEMMA OneClock == ASSUME Next PROVE ClockMoves
<1>1. LNext => ClockMoves
  BY DEF LNext, LTick, Check, Denied, TruncateLease, WriteLease, Die, lvars, ClockMoves
<1>2. RNext => ClockMoves
  BY DEF RNext, RTick, BreakChain, BeginRecovery, OpenCheckpoint, WriteCheckpoint, Restore, Restart, ClockMoves
<1>3. ANext => ClockMoves
  <2>1. ATick => ClockMoves
    BY DEF ATick, ClockMoves
  <2>2. ASSUME NEW e \in ApprovalEngines, LoadRecords(e) \/ TruncateAll(e) \/ WriteAll(e) \/ CrashEngine(e)
        PROVE  UNCHANGED now
    BY <2>2 DEF LoadRecords, TruncateAll, WriteAll, CrashEngine
  <2>3. ASSUME NEW e \in ApprovalEngines, NEW r \in Requests,
               \/ Expire(e, r)
               \/ \E a \in Actions : Create(e, r, a) \/ \E w \in Executors : Authorise(w, e, r, a)
               \/ \E w \in Executors : AuthoriseUnseen(w, e, r)
               \/ \E to, actor, approver : Turn(e, r, to, actor, approver)
        PROVE  UNCHANGED now
    BY <2>3 DEF Create, Expire, Turn, Authorise, AuthoriseUnseen
  <2>4. ASSUME NEW w \in Executors, Consume(w) PROVE UNCHANGED now
    BY <2>4 DEF Consume
  <2> QED
    BY <2>1, <2>2, <2>3, <2>4 DEF ANext, ClockMoves
<1>4. SNext => ClockMoves
  BY DEF SNext, STick, RestartGateway, RegisterHarness, HarnessBeat, Hear, ClockMoves
<1>5. MNext => ClockMoves
  BY DEF MNext, MTick, StartWorker, SignStatus, Bridge, Offer, CheckStatus, StoreStatus, ClockMoves
<1> QED
  BY <1>1, <1>2, <1>3, <1>4, <1>5 DEF Next, ClockMoves

\* Of the others only the provider status (provider.py) makes offers.
LEMMA NothingOfferedHolds == Spec => []NothingOffered
<1>1. Init => NothingOffered
  BY DEF Init, MInit, NothingOffered
<1>2. NothingOffered /\ [Next]_vars => NothingOffered'
  BY DEF NothingOffered, Next, vars, Others, OfWorkers, OfProvider
<1> QED
  BY <1>1, <1>2, PTL DEF Spec

\* In every step a component takes a step of its own, or stutters, or only sees the clock advance.
LEMMA EachInItsTurn ==
    ASSUME NothingOffered, [Next]_vars
    PROVE  /\ [KNext]_kvars /\ [LNext]_lvars /\ [ENext]_evars /\ [RNext]_rvars /\ [ANext]_avars
           /\ [QNext]_qvars /\ [AuthNext]_cvars /\ [DNext]_dvars /\ [PNext]_pvars
           /\ [SNext]_svars /\ [MNext]_mvars
<1> USE DEF OfKillswitch, OfLease, OfObserver, OfRecovery, OfApprovals, OfQueue, OfVerdicts,
            OfSessions, OfProvider, OfWorkers, Others, FileBacked
<1>1. (Next \/ UNCHANGED vars) /\ ClockMoves
  BY OneClock DEF vars, ClockMoves
<1>2. [KNext]_kvars
  BY <1>1 DEF Next, vars
<1>3. [LNext]_lvars
  BY <1>1 DEF Next, vars, lvars, LNext, LTick, ClockMoves
<1>4. [ENext]_evars
  BY <1>1 DEF Next, vars
<1>5. [RNext]_rvars
  BY <1>1 DEF Next, vars, rvars, RNext, RTick, ClockMoves
<1>6. [ANext]_avars
  BY <1>1 DEF Next, vars, avars, ANext, ATick, ClockMoves
<1>7. [QNext]_qvars
  BY <1>1 DEF Next, vars
<1>8. [AuthNext]_cvars
  BY <1>1 DEF Next, vars
<1>9. [DNext]_dvars
  BY <1>1 DEF Next, vars
<1>10. [PNext]_pvars
  BY <1>1 DEF Next, vars
<1>11. [SNext]_svars
  BY <1>1 DEF Next, vars, svars, SNext, STick, ClockMoves
<1>12. [MNext]_mvars
  BY <1>1 DEF Next, vars, mvars, MNext, MTick, ClockMoves, NothingOffered
<1> QED
  BY <1>2, <1>3, <1>4, <1>5, <1>6, <1>7, <1>8, <1>9, <1>10, <1>11, <1>12

\* The parts that keep records of their own do not disturb each other: together,
\* over one clock, they do only what watchdog.py, engine.py, recovery_engine.py,
\* approval_engine.py, queue_integrity.py, authenticator.py with executor.py,
\* github_governance_truth.py, evaluator.py, gateway.py and provider.py each do alone.
THEOREM EachIsItself ==
    Spec => /\ KSpec /\ LSpec /\ ESpec /\ RSpec /\ ASpec /\ QSpec /\ AuthSpec /\ DSpec /\ PSpec
            /\ SSpec /\ MSpec
<1>1. Init => /\ KInit /\ LInit /\ EInit /\ RInit /\ AInit /\ QInit /\ AuthInit /\ DInit /\ PInit
              /\ SInit /\ MInit
  <2>1. [oracle |-> FALSE, expected |-> TRUE] \in [oracle : BOOLEAN, expected : BOOLEAN]
    OBVIOUS
  <2>2. [signed |-> TRUE, mutating |-> FALSE] \in [signed : BOOLEAN, mutating : BOOLEAN]
    OBVIOUS
  <2>3. Init => AuthInit
    BY <2>2 DEF Init, AuthInit
  <2>4. Init => PInit
    BY <2>1 DEF Init, PInit
  <2> QED
    BY <2>3, <2>4 DEF Init
<1>2. NothingOffered /\ [Next]_vars =>
           /\ [KNext]_kvars /\ [LNext]_lvars /\ [ENext]_evars /\ [RNext]_rvars /\ [ANext]_avars
           /\ [QNext]_qvars /\ [AuthNext]_cvars /\ [DNext]_dvars /\ [PNext]_pvars
           /\ [SNext]_svars /\ [MNext]_mvars
  BY EachInItsTurn
<1> QED
  BY <1>1, <1>2, NothingOfferedHolds, PTL
  DEF Spec, KSpec, LSpec, ESpec, RSpec, ASpec, QSpec, AuthSpec, DSpec, PSpec, SSpec, MSpec

\* The state files, records and histories of all these parts, and what a call
\* has in hand between two steps, keep the shapes that their handlers rely on.
THEOREM RecordsKeepTheirTypes == Spec => []RecordsTyped
<1>1. KTypeOK /\ LTypeOK /\ ETypeOK /\ RTypeOK /\ ATypeOK /\ QTypeOK /\ AuthTypeOK /\ DTypeOK
      /\ PTypeOK /\ STypeOK /\ MTypeOK => RecordsTyped
  BY DEF RecordsTyped
<1> QED
  BY <1>1, EachIsItself, KillswitchTypes, LeaseTypes, ObserverTypes, RecoveryTypes, ApprovalTypes,
     QueueTypes, AuthenticationTypes, CertificationTypes, StatusTypes, SessionTypes, ProviderTypes,
     PTL

\* What makes each part correct also holds when they share the clock: the stop
\* of watchdog.py, its lease, the retries and continuations of recovery_engine.py,
\* the sweeps of engine.py, the approvals of approval_engine.py, the certificate
\* of github_governance_truth.py, the revalidations of executor.py, the status
\* of evaluator.py and the messages of gateway.py and provider.py.
THEOREM RecordsAreSafeTogether ==
    Spec => /\ ResumeIsEarned /\ HeardForward
            /\ [](SplitOnlyByRace /\ ContinuedOnce /\ NoRetryStorm /\ PublishedIsWhole
                  /\ PidNeverNamesAnother /\ ExecutedAsApproved /\ CertificateNamesOneHead
                  /\ LetThroughStillTrusted /\ VerifiedIsUnambiguous /\ OfferedOnLatestWord)
BY EachIsItself, StopsAreLiftedByCure, WorkersAreHeardForward, NoSplitWithoutRace,
   DirectivesContinueOnce, RetriesAreBounded, WholeSweepsArePublished, PidIsTheHolders,
   ExecutionsAreApproved, CertificatesNameOneHead, TrustIsCheckedAgain, VerifiedStatusIsTheOnlyOne,
   OffersFollowLatestWord, PTL

\* And where one queue and one approval engine are open at a time
\* (queue_integrity.py, approval_engine.py), an ended directive stays ended, none
\* starts twice and a spent approval is spent.
THEOREM SoleOwnersAreSafeTogether ==
    SoleQueue /\ SoleApprover => (Spec => EndedStays /\ [](StartedOnce /\ SpentIsSpent))
<1>1. SUFFICES ASSUME SoleQueue, SoleApprover PROVE Spec => EndedStays /\ [](StartedOnce /\ SpentIsSpent)
  OBVIOUS
<1> QED
  BY <1>1, EachIsItself, EndsAreFinal, DirectivesStartOnce, SpentApprovalsStaySpent, PTL
=============================================================================
