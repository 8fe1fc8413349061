------------------------------ MODULE Recovery ------------------------------
(***************************************************************************)
(* The recovery engine (recovery_engine.py).  Each process has an engine:  *)
(* its retry history and what it let continue are in memory, checkpoints   *)
(* and the audit ledger are files that the engines of all processes share. *)
(* A checkpoint file is named by directive and attempt, so engines may     *)
(* write the same one.  Calls of several processes interleave.             *)
(***************************************************************************)
EXTENDS Integers, FiniteSets, Clock

CONSTANTS
    Engines, Directives, Payloads,
    MaxRetries, \* max_retries
    Window,     \* retry_window_seconds
    MaxAge,     \* checkpoint_max_age_seconds
    MaxCalls,   \* bound of the model: calls of execute_safe_recovery
    NoFile

ASSUME RecoveryAssumption ==
    /\ MaxRetries \in Nat /\ Window \in Nat /\ MaxAge \in Nat
    /\ MaxCalls \in Nat /\ NoFile \notin Payloads

VARIABLES
    checkpoint, \* the checkpoint file of each directive and attempt
    chain,      \* whether the ledger still verifies
    engine,     \* the memory of each engine, and the call it executes
    granted,    \* history: the retries each engine, since it started, authorised
    continued,  \* history: the continuations, each with what it was given
    calls

rvars == <<now, checkpoint, chain, engine, granted, continued, calls>>

Slots == Directives \X (1 .. MaxRetries)
NoCall == [pc |-> "idle", d |-> NoFile, n |-> 0, payload |-> NoFile]
New == [retries |-> [d \in Directives |-> {}], completed |-> {}, call |-> NoCall]
RInit ==
    /\ now = 0 /\ chain = TRUE /\ continued = {} /\ calls = 0
    /\ checkpoint = [s \in Slots |-> NoFile]
    /\ engine = [e \in Engines |-> New]
    /\ granted = [e \in Engines |-> [d \in Directives |-> {}]]

\* classify_failure: what a call is given is recoverable, only if it names no
\* foreign service and a known transient error, and no critical keyword.
\* An external target first, then critical words, then transient ones, and
\* whatever is left is unrecoverable.
Failures == [external : BOOLEAN, critical : BOOLEAN, transient : BOOLEAN]
Recoverable(f) == ~ f.external /\ ~ f.critical /\ f.transient

\* What retry_history keeps of an attempt is its time; the number of the call
\* tells two attempts of one moment apart.
Attempt == [at |-> now, n |-> calls]
\* Mutant of Recent: an attempt exactly at the edge of the window is forgotten.
BadRecent(e, d) == {x \in engine[e].retries[d] : now - x.at < Window}
\* attempt_retry: the attempts of the window, the refused ones included.
Recent(e, d) == {x \in engine[e].retries[d] : now - x.at <= Window}

\* The killswitch first, then the duplicate check, from memory.
MayContinue(e, d, killswitch) == ~ killswitch /\ d \notin engine[e].completed

\* The call up to save_checkpoint.  A refused retry is remembered too.
BeginRecovery(e, d, payload, killswitch, f) ==
    /\ engine[e].call.pc = "idle" /\ calls < MaxCalls
    /\ calls' = calls + 1
    /\ IF MayContinue(e, d, killswitch) /\ Recoverable(f)
       THEN LET tries == Recent(e, d) \cup {Attempt} IN
            IF Cardinality(tries) > MaxRetries
            THEN /\ engine' = [engine EXCEPT ![e].retries[d] = tries]
                 /\ UNCHANGED granted
            ELSE /\ engine' = [engine EXCEPT ![e].retries[d] = tries,
                        ![e].call = [pc |-> "save", d |-> d, n |-> Cardinality(tries), payload |-> payload]]
                 /\ granted' = [granted EXCEPT ![e][d] = @ \cup {Attempt}]
       ELSE UNCHANGED <<engine, granted>>
    /\ UNCHANGED <<now, checkpoint, chain, continued>>

Slot(e) == <<engine[e].call.d, engine[e].call.n>>
Move(e, pc) ==
    engine' = [engine EXCEPT ![e].call = IF pc = "idle" THEN NoCall ELSE [@ EXCEPT !.pc = pc]]
\* save_checkpoint: the file is written in place, so a crash leaves it empty.
OpenCheckpoint(e) ==
    /\ engine[e].call.pc = "save"
    /\ checkpoint' = [checkpoint EXCEPT ![Slot(e)] = NoFile] /\ Move(e, "write")
    /\ UNCHANGED <<now, chain, granted, continued, calls>>
WriteCheckpoint(e) ==
    /\ engine[e].call.pc = "write"
    /\ checkpoint' = [checkpoint EXCEPT ![Slot(e)] =
           [payload |-> engine[e].call.payload, at |-> now, by |-> e]]
    /\ Move(e, "restore")
    /\ UNCHANGED <<now, chain, granted, continued, calls>>

\* Mutant of Genuine: the payload of the checkpoint is not compared.
BadGenuine(file, payload) == file # NoFile /\ now - file.at <= MaxAge
\* restore_checkpoint: it is there and parses, its signature is right (all
\* engines sign with one key), it is for this payload, and it is not stale.
Genuine(file, payload) ==
    /\ file # NoFile
    /\ file.payload = payload
    /\ now - file.at <= MaxAge
\* The file is read back and the ledger verified; only then is the directive
\* marked, in memory, and its continuation authorised.
Restore(e) ==
    LET c == engine[e].call
        file == checkpoint[Slot(e)] IN
    /\ c.pc = "restore"
    /\ IF Genuine(file, c.payload) /\ chain
       THEN /\ engine' = [engine EXCEPT ![e].call = NoCall, ![e].completed = @ \cup {c.d}]
            /\ continued' = continued \cup
                   {[by |-> e, d |-> c.d, asked |-> c.payload, given |-> file.payload,
                     once |-> \A x \in continued : ~ (x.by = e /\ x.d = c.d)]}
       ELSE Move(e, "idle") /\ UNCHANGED continued
    /\ UNCHANGED <<now, checkpoint, chain, granted, calls>>

\* record_event chains to the last line it read, without a lock: another
\* process that records at the same moment breaks the chain for good.
BreakChain ==
    /\ Cardinality(Engines) > 1 /\ \E e \in Engines : engine[e].call # NoCall
    /\ chain /\ chain' = FALSE
    /\ UNCHANGED <<now, checkpoint, engine, granted, continued, calls>>
\* The process ends: what it remembered is gone (and so is its history here),
\* and a line it was appending to the ledger may be torn.
Restart(e) ==
    /\ engine[e] # New
    /\ chain' \in {chain, chain /\ engine[e].call = NoCall}
    /\ engine' = [engine EXCEPT ![e] = New]
    /\ granted' = [granted EXCEPT ![e] = [d \in Directives |-> {}]]
    /\ continued' = {x \in continued : x.by # e}
    /\ UNCHANGED <<now, checkpoint, calls>>
RTick == Advance
        /\ UNCHANGED <<checkpoint, chain, engine, granted, continued, calls>>

RNext ==
    \/ RTick \/ BreakChain
    \/ \E e \in Engines :
        \/ \E d \in Directives, v \in Payloads, k \in BOOLEAN, f \in Failures :
               BeginRecovery(e, d, v, k, f)
        \/ OpenCheckpoint(e) \/ WriteCheckpoint(e) \/ Restore(e) \/ Restart(e)
RSpec == RInit /\ [][RNext]_rvars

----------------------------------------------------------------------------
RTypeOK ==
    /\ now \in 0 .. MaxTime /\ calls \in 0 .. MaxCalls /\ chain \in BOOLEAN
    /\ \A s \in Slots : checkpoint[s] # NoFile => checkpoint[s].payload \in Payloads
    /\ \A e \in Engines :
        /\ engine[e].call.pc \in {"idle", "save", "write", "restore"}
        /\ engine[e].completed \subseteq Directives

\* As long as its process lives, an engine lets a directive continue once, and
\* only from a checkpoint for the payload it was asked about, even when another
\* engine writes the same checkpoint file in the middle of the call.
ContinuedOnce == \A x \in continued : x.once /\ x.given = x.asked

InWindow(attempts, t) == {x \in attempts : x.at \in t .. t + Window}

\* attempt_retry: within any window no engine authorises more than MaxRetries
\* retries of a directive, whatever was refused, expired or completed between.
NoRetryStorm ==
    \A e \in Engines, d \in Directives :
        \A t \in 0 .. now : Cardinality(InWindow(granted[e][d], t)) <= MaxRetries
=============================================================================
