---------------------------- MODULE QueueRecords ----------------------------
(***************************************************************************)
(* The durable directive queue (queue_integrity.py): the state machine of  *)
(* a directive from QUEUED to a terminal state.  A queue instance reads    *)
(* its file once; a call changes the record in memory and then saves all   *)
(* records by a temporary file and a rename.  A save may fail, after which *)
(* memory is ahead of the file, and an instance may be killed at any step. *)
(***************************************************************************)
EXTENDS Integers, FiniteSets, FileRecords

CONSTANTS
    Queues,   \* queue instances over one file
    Entries, Claimants, Hashes,
    MaxStarts \* bound of the model: transitions to EXECUTING of a directive

ASSUME QueueAssumption == MaxStarts \in Nat /\ Nobody \notin Claimants

VARIABLES
    queueFile, \* the records in the file
    records,   \* the records of each instance
    saving,    \* the transition an instance is about to save
    started,   \* history: how often each directive was started, as told to a worker
    waited,    \* history: how often its execution was sent to a human, saved or not, to MaxStarts
    ended      \* history: the directives whose terminal state was saved

qvars == <<queueFile, records, saving, started, waited, ended>>

TERMINAL_STATES == {"COMPLETED", "FAILED_FINAL", "REJECTED"}
VALID_TRANSITIONS ==
    [AUTHENTICATED |-> {"QUEUED", "REJECTED"},
     QUEUED |-> {"CLAIMED", "REJECTED"},
     CLAIMED |-> {"PRE_EXEC_VALIDATED", "REJECTED", "INDETERMINATE"},
     PRE_EXEC_VALIDATED |-> {"DISPATCH_AUTHORIZED", "WAITING_HUMAN", "REJECTED"},
     DISPATCH_AUTHORIZED |-> {"EXECUTING", "REJECTED"},
     EXECUTING |-> {"COMPLETED", "FAILED_FINAL", "WAITING_HUMAN", "INDETERMINATE"},
     WAITING_HUMAN |-> {"PRE_EXEC_VALIDATED", "REJECTED"},
     INDETERMINATE |-> {}]
DirectiveState == DOMAIN VALID_TRANSITIONS \cup TERMINAL_STATES

Closed == [pc |-> "down", d |-> Nobody, from |-> "", to |-> ""]
Ready == [pc |-> "ready", d |-> Nobody, from |-> "", to |-> ""]
QInit ==
    /\ queueFile = {} /\ records = [q \in Queues |-> {}] /\ saving = [q \in Queues |-> Closed]
    /\ started = [d \in Entries |-> 0] /\ waited = [d \in Entries |-> 0]
    /\ ended = {}

OpenQueue(q) ==
    /\ saving[q].pc = "down"
    /\ saving' = [saving EXCEPT ![q] = Ready] /\ records' = [records EXCEPT ![q] = queueFile]
    /\ UNCHANGED <<queueFile, started, waited, ended>>
KillQueue(q) ==
    /\ saving[q].pc # "down"
    /\ saving' = [saving EXCEPT ![q] = Closed] /\ records' = [records EXCEPT ![q] = {}]
    /\ UNCHANGED <<queueFile, started, waited, ended>>

\* A call has put x in memory; what is left is save_queue_atomic.
Keep(q, x, from) ==
    /\ records' = [records EXCEPT ![q] = With(@, x)]
    /\ saving' = [saving EXCEPT ![q] = [pc |-> "save", d |-> x.id, from |-> from, to |-> x.state]]
    /\ UNCHANGED <<queueFile, started, waited, ended>>

\* enqueue_directive: the duplicate check is against memory.
Enqueue(q, d, payload) ==
    /\ saving[q].pc = "ready" /\ ~ Has(records[q], d)
    /\ Keep(q, [id |-> d, state |-> "QUEUED", payload |-> payload, owner |-> Nobody], "NONE")

\* Mutant of MayMove: the terminal states are not looked at first, and an
\* entry of the table sends them back.
BadMayMove(x, to) ==
    \/ x.state \in TERMINAL_STATES /\ to = "DISPATCH_AUTHORIZED"
    \/ x.state \notin TERMINAL_STATES /\ to \in VALID_TRANSITIONS[x.state]
MayMove(x, to) == x.state \notin TERMINAL_STATES /\ to \in VALID_TRANSITIONS[x.state]
\* The record after the move: a claim takes the lock, the end gives it back.
Moved(x, to, worker) ==
    [x EXCEPT !.state = to,
        !.owner = IF to = "CLAIMED" THEN worker
                  ELSE IF to \in TERMINAL_STATES THEN Nobody ELSE @]
\* transition_state; seen is the payload hash the caller gives, or none.
Transition(q, d, to, worker, seen) ==
    /\ saving[q].pc = "ready" /\ Has(records[q], d)
    /\ to = "EXECUTING" => started[d] < MaxStarts
    /\ LET x == Rec(records[q], d) IN
        /\ MayMove(x, to)
        /\ IF seen \notin {Nobody, x.payload}
           THEN Keep(q, [x EXCEPT !.state = "REJECTED"], x.state)
           ELSE /\ to = "CLAIMED" => x.owner \in {Nobody, worker}
                /\ Keep(q, Moved(x, to, worker), x.state)

\* Mutant of Told: a save that failed is answered like one that did not.
BadTold(saved) == TRUE
\* What the caller is told: True only if the queue was saved.
Told(saved) == saved
Save(q, saved) ==
    LET c == saving[q] IN
    /\ c.pc = "save"
    /\ saving' = [saving EXCEPT ![q] = Ready]
    /\ queueFile' = IF saved THEN records[q] ELSE queueFile
    /\ started' = IF c.to = "EXECUTING" /\ Told(saved)
                  THEN [started EXCEPT ![c.d] = @ + 1] ELSE started
    /\ waited' = IF c.to = "WAITING_HUMAN" /\ c.from = "EXECUTING" /\ waited[c.d] < MaxStarts
                 THEN [waited EXCEPT ![c.d] = @ + 1] ELSE waited
    /\ ended' = IF saved
                THEN ended \cup {x.id : x \in {y \in records[q] : y.state \in TERMINAL_STATES}}
                ELSE ended
    /\ UNCHANGED records

QNext ==
    \E q \in Queues :
        \/ OpenQueue(q) \/ KillQueue(q) \/ \E saved \in BOOLEAN : Save(q, saved)
        \/ \E d \in Entries :
            \/ \E v \in Hashes : Enqueue(q, d, v)
            \/ \E to \in DirectiveState, w \in Claimants, v \in Hashes \cup {Nobody} :
                   Transition(q, d, to, w, v)
QSpec == QInit /\ [][QNext]_qvars

----------------------------------------------------------------------------
QTypeOK ==
    /\ \A recs \in {queueFile} \cup {records[q] : q \in Queues} : \A x \in recs :
        /\ x.id \in Entries /\ x.state \in DirectiveState
        /\ x.payload \in Hashes /\ x.owner \in Claimants \cup {Nobody}
    /\ \A q \in Queues : saving[q].pc \in {"down", "ready", "save"}
    /\ started \in [Entries -> Nat] /\ ended \subseteq Entries

\* No directive is started twice, except that each time its execution was sent
\* to a human it may be started once more: over failed saves, lost
\* memory and restarts, because a worker is only told to execute after the
\* state EXECUTING is in the file, and nothing leads back from there.
StartedOnce == \A d \in Entries : started[d] <= 1 + waited[d]

\* What has ended in the file stays there as it ended, and its directive can
\* not be queued again: the replay check of enqueue and the terminal states,
\* read again after any crash.
EndedStays ==
    [][\A d \in ended : Has(queueFile', d) /\ Rec(queueFile', d) = Rec(queueFile, d)]_qvars
=============================================================================
