------------------------- MODULE DirectiveWatcher -------------------------
(***************************************************************************)
(* The inbox pipeline of src/directive: one watcher takes the files of     *)
(* directives/inbox in the order of their names, validates and             *)
(* authenticates each, appends it to the durable queue (append, fsync,     *)
(* reopen, verify the last line), appends the decision to the replay       *)
(* ledger, writes the acknowledgement and moves the file away.  Every one  *)
(* of these steps can be the last of the process.                          *)
(*                                                                         *)
(* Both logs are append-only files of JSON lines.  A failing or            *)
(* interrupted append may leave any beginning of a line without its        *)
(* newline: an unreadable one, or, cut just before the newline, a record   *)
(* that a reader still accepts.  Whatever is appended next continues that  *)
(* line and makes all of it unreadable.  The queue refuses to load with an *)
(* unreadable line, the ledger skips it.                                   *)
(*                                                                         *)
(* The verdict of DirectiveAuthenticator depends on Git, the remote and    *)
(* the clock and is a free choice, but whether a document asks for a human *)
(* is a property of the document.                                          *)
(***************************************************************************)
EXTENDS Naturals, FiniteSets

CONSTANTS
    Names,      \* inbox file names, in the order of sorted()
    OddNames,   \* those that _SOURCE_NAME does not match
    Ids,        \* directive ids
    Commits,    \* payload commits
    Docs,       \* the documents that may be delivered
    Arrivals,   \* which document may come under which name (a bound)
    Counted,    \* ids whose decisions the history variable counts
    NoDoc, NoAck

ASSUME NamesAssumption ==
    Names \subseteq Nat /\ OddNames \subseteq Names /\ Counted \subseteq Ids
\* A "bad" document is malformed or violates the schema; its id is the one its
\* acknowledgement is filed under.
ASSUME DocsAssumption ==
    /\ Docs \subseteq [id: Ids, commit: Commits, gate: {"bad", "plain", "human"}]
    /\ NoDoc \notin Docs /\ NoAck # "ACCEPTED"

VARIABLES
    inbox,      \* name -> the document delivered under it
    queueFile,  \* execution_queue.jsonl
    broken,     \* it has an unreadable line
    spoiled,    \* records once readable in it that an append spoiled (history)
    ledgerFile, \* consumed_directives.jsonl
    acks,       \* id -> decision of directives/ack/<id>.json
    queued,     \* DurableExecutionQueue.queued_ids
    consumed,   \* ReplayLedger.consumed_records
    pc,         \* the next step of poll_inbox
    batch,      \* the files of this poll still to be taken
    cur,        \* the file in hand: its name, document and decision
    handled     \* counted id -> how often a decision was recorded (history, to 2)

disk == <<inbox, queueFile, broken, spoiled, ledgerFile, acks>>
memory == <<queued, consumed, batch, cur>>
vars == <<disk, memory, pc, handled>>

Decisions == {"ACCEPTED", "WAITING_HUMAN", "REJECTED"}
Records == [id: Ids, commit: Commits]
Consumptions == [id: Ids, commit: Commits, decision: Decisions]
\* records: the readable finished lines; open: the last line lacks its newline,
\* and tail holds the record a reader finds on it, if any.
Log(R) == [records: SUBSET R, open: BOOLEAN, tail: SUBSET R]
EmptyLog == [records |-> {}, open |-> FALSE, tail |-> {}]
\* What a reader of the file finds.
Readable(log) == log.records \cup log.tail
Hands == [name: Names, doc: Docs, decision: Decisions]

IdsOf(records) == {r.id : r \in records}

----------------------------------------------------------------------------
(* Appending a line to a log. *)

\* The last line was written on; with a line break after it unless left open.
Continued(log, open) ==
    [log EXCEPT !.open = open, !.tail = {}]
Appended(log, r) ==
    IF log.open THEN Continued(log, FALSE)
    ELSE [log EXCEPT !.records = @ \cup {r}]
\* What a failed or interrupted append of r may leave behind.
Torn(log, r) ==
    {log, Continued(log, TRUE)}
    \cup {l \in {[log EXCEPT !.open = TRUE, !.tail = {r}]} : ~log.open}

\* _load_queue keeps one record of an id.
Loads(records) ==
    {items \in SUBSET records :
        /\ IdsOf(items) = IdsOf(records)
        /\ \A r, s \in items : r.id = s.id => r = s}

\* The queue file is written: a line breaks by a half record, or by going on
\* after one that lacks its newline.
WriteQueue(outcomes) ==
    /\ queueFile' \in outcomes
    /\ broken' = (\/ broken
                  \/ queueFile'.open /\ queueFile'.tail = {}
                  \/ queueFile.open /\ queueFile' # queueFile)
    /\ spoiled' = spoiled \cup (Readable(queueFile) \ Readable(queueFile'))

Record(c) == [id |-> c.doc.id, commit |-> c.doc.commit]
Consumption(c) == [id |-> c.doc.id, commit |-> c.doc.commit, decision |-> c.decision]

----------------------------------------------------------------------------

WInit ==
    /\ inbox = [n \in Names |-> NoDoc]
    /\ queueFile = EmptyLog /\ broken = FALSE /\ spoiled = {}
    /\ ledgerFile = EmptyLog
    /\ acks = [i \in Ids |-> NoAck]
    /\ queued = {} /\ consumed = {} /\ batch = {} /\ cur = {}
    /\ pc = "down"
    /\ handled = [i \in Counted |-> 0]

\* Somebody puts a document in the inbox; ids may come again, in any name.
Deliver(n, d) ==
    /\ inbox[n] = NoDoc /\ <<n, d>> \in Arrivals
    /\ inbox' = [inbox EXCEPT ![n] = d]
    /\ UNCHANGED <<queueFile, broken, spoiled, ledgerFile, acks, memory, pc, handled>>

\* Mutant of Boot: the ledger starts empty in a new process.
BadBoot ==
    /\ pc = "down" /\ ~broken
    /\ queued' \in Loads(Readable(queueFile))
    /\ consumed' = {}
    /\ pc' = "idle"
    /\ UNCHANGED <<disk, batch, cur, handled>>
\* The constructor loads both logs; with a broken queue it raises instead.
Boot ==
    /\ pc = "down" /\ ~broken
    /\ queued' \in Loads(Readable(queueFile))
    /\ consumed' = Readable(ledgerFile)
    /\ pc' = "idle"
    /\ UNCHANGED <<disk, batch, cur, handled>>

ListInbox ==
    /\ pc = "idle"
    /\ batch' = {n \in Names : inbox[n] # NoDoc}
    /\ batch' # {}
    /\ pc' = "take"
    /\ UNCHANGED <<disk, queued, consumed, cur, handled>>

\* The next file of the batch is taken in hand with a decision.
Take(decision, next) ==
    /\ pc = "take"
    /\ \E n \in batch :
        /\ \A m \in batch : n <= m
        /\ cur' = {[name |-> n, doc |-> inbox[n], decision |-> decision]}
        /\ batch' = batch \ {n}
    /\ pc' = next
    /\ UNCHANGED <<disk, queued, consumed, handled>>
InHand == CHOOSE c \in Hands : cur = {c}
IsConsumed(c) == c.doc.id \in IdsOf(consumed)

\* Malformed JSON and schema violations are not recorded in the ledger.
RejectInvalid ==
    /\ Take("REJECTED", "ack")
    /\ \E c \in cur' : c.doc.gate = "bad"

\* Mutant of RejectReplay: a replayed file is passed over and left in the inbox.
BadRejectReplay ==
    /\ pc = "take"
    /\ \E n \in batch : inbox[n].gate # "bad" /\ inbox[n].id \in IdsOf(consumed)
    /\ pc' = "idle" /\ batch' = {}
    /\ UNCHANGED <<disk, queued, consumed, cur, handled>>
\* REPLAY_DETECTED or STATE_CONFLICT.
RejectReplay ==
    /\ Take("REJECTED", "ack")
    /\ \E c \in cur' : c.doc.gate # "bad" /\ IsConsumed(c)

RejectUnauthentic ==
    /\ Take("REJECTED", "record")
    /\ \E c \in cur' : c.doc.gate # "bad" /\ ~IsConsumed(c)

Admit ==
    \/ /\ Take("ACCEPTED", "enqueue")
       /\ \E c \in cur' : c.doc.gate = "plain" /\ ~IsConsumed(c)
    \/ /\ Take("WAITING_HUMAN", "enqueue")
       /\ \E c \in cur' : c.doc.gate = "human" /\ ~IsConsumed(c)

----------------------------------------------------------------------------
(* enqueue_payload: each way out of it. *)

Enqueued ==
    /\ pc' = "record"
    /\ UNCHANGED <<inbox, ledgerFile, acks, consumed, batch, cur, handled>>
\* The human gate swallows the error; else the file is rejected, off the ledger.
NotEnqueued ==
    /\ queued' = queued
    /\ IF InHand.decision = "WAITING_HUMAN"
       THEN pc' = "record" /\ cur' = cur
       ELSE pc' = "ack" /\ cur' = {[InHand EXCEPT !.decision = "REJECTED"]}
    /\ UNCHANGED <<inbox, ledgerFile, acks, consumed, batch, handled>>

Fits == InHand.name \notin OddNames
Known == InHand.doc.id \in IdsOf(queued)

EnqueueKnown == 
    /\ pc = "enqueue" /\ Fits /\ Known
    /\ UNCHANGED <<queueFile, broken, spoiled, queued>> /\ Enqueued
EnqueueRefused ==
    /\ pc = "enqueue" /\ ~Fits
    /\ UNCHANGED <<queueFile, broken, spoiled>> /\ NotEnqueued
\* Mutant of EnqueueVerified: the read-back is taken for granted.
BadEnqueueVerified ==
    /\ pc = "enqueue" /\ Fits /\ ~Known
    /\ WriteQueue({Appended(queueFile, Record(InHand))})
    /\ queued' = queued \cup {Record(InHand)}
    /\ Enqueued
\* The line just appended is read back as the last one of the file.
EnqueueVerified ==
    /\ pc = "enqueue" /\ Fits /\ ~Known
    /\ WriteQueue({Appended(queueFile, Record(InHand))})
    /\ ~queueFile.open
    /\ queued' = queued \cup {Record(InHand)}
    /\ Enqueued
\* It cannot be read back: it continues a torn line, or reading fails.
EnqueueUnverified ==
    /\ pc = "enqueue" /\ Fits /\ ~Known
    /\ WriteQueue({Appended(queueFile, Record(InHand))})
    /\ NotEnqueued
EnqueueUnwritten ==
    /\ pc = "enqueue" /\ Fits /\ ~Known
    /\ WriteQueue(Torn(queueFile, Record(InHand)))
    /\ NotEnqueued

----------------------------------------------------------------------------

\* record_consumption: memory first; a failing append is only printed.
RecordConsumption ==
    /\ pc = "record"
    /\ consumed' = consumed \cup {Consumption(InHand)}
    /\ ledgerFile' \in {Appended(ledgerFile, Consumption(InHand))}
                       \cup Torn(ledgerFile, Consumption(InHand))
    /\ handled' = [i \in Counted |->
          IF i = InHand.doc.id /\ handled[i] < 2 THEN handled[i] + 1 ELSE handled[i]]
    /\ pc' = "ack"
    /\ UNCHANGED <<inbox, queueFile, broken, spoiled, acks, queued, batch, cur>>

\* write_ack truncates the file first and swallows every error.
WriteAck ==
    /\ pc = "ack"
    /\ \E a \in {InHand.decision, NoAck, acks[InHand.doc.id]} :
        acks' = [acks EXCEPT ![InHand.doc.id] = a]
    /\ pc' = "move"
    /\ UNCHANGED <<inbox, queueFile, broken, spoiled, ledgerFile, memory, handled>>

MoveAway ==
    /\ pc = "move"
    /\ inbox' = [inbox EXCEPT ![InHand.name] = NoDoc]
    /\ cur' = {}
    /\ pc' = IF batch = {} THEN "idle" ELSE "take"
    /\ UNCHANGED <<queueFile, broken, spoiled, ledgerFile, acks, queued, consumed, batch, handled>>

\* An OSError of the move ends the poll; run_sweep catches it.
MoveFails ==
    /\ pc = "move"
    /\ pc' = "idle" /\ batch' = {} /\ cur' = {}
    /\ UNCHANGED <<disk, queued, consumed, handled>>

\* The process ends, in the middle of whatever it was writing.
Crash ==
    /\ pc # "down"
    /\ pc' = "down"
    /\ queued' = {} /\ consumed' = {} /\ batch' = {} /\ cur' = {}
    /\ WriteQueue(IF pc = "enqueue" /\ Fits /\ ~Known
                  THEN Torn(queueFile, Record(InHand))
                       \cup {Appended(queueFile, Record(InHand))}
                  ELSE {queueFile})
    /\ ledgerFile' \in IF pc = "record" THEN Torn(ledgerFile, Consumption(InHand))
                       ELSE {ledgerFile}
    /\ acks' \in IF pc = "ack" THEN {acks, [acks EXCEPT ![InHand.doc.id] = NoAck]}
                 ELSE {acks}
    /\ UNCHANGED <<inbox, handled>>

----------------------------------------------------------------------------

WatcherStep ==
    \/ ListInbox
    \/ RejectInvalid \/ RejectReplay \/ RejectUnauthentic \/ Admit
    \/ EnqueueKnown \/ EnqueueRefused
    \/ EnqueueVerified \/ EnqueueUnverified \/ EnqueueUnwritten
    \/ RecordConsumption \/ WriteAck
    \/ MoveAway \/ MoveFails

WNext ==
    \/ \E n \in Names, d \in Docs : Deliver(n, d)
    \/ Boot \/ WatcherStep \/ Crash

WSpec == WInit /\ [][WNext]_vars
\* main.py polls in every sweep, and a watcher that is down is started again.
WFairSpec == WSpec /\ WF_vars(Boot) /\ WF_vars(WatcherStep)

----------------------------------------------------------------------------
(* Properties. *)

\* Shape of the state; what the memory holds of the queue was readable on disk,
\* and the file in hand is still in the inbox.
WTypeOK ==
    /\ inbox \in [Names -> Docs \cup {NoDoc}]
    /\ queueFile \in Log(Records) /\ broken \in BOOLEAN /\ spoiled \subseteq Records
    /\ ledgerFile \in Log(Consumptions)
    /\ acks \in [Ids -> Decisions \cup {NoAck}]
    /\ queued \subseteq Readable(queueFile) \cup spoiled
    /\ consumed \subseteq Consumptions
    /\ pc \in {"down", "idle", "take", "enqueue", "record", "ack", "move"}
    /\ batch \subseteq {n \in Names : inbox[n] # NoDoc}
    /\ \A c \in cur : c.name \notin batch
    /\ IF pc \in {"enqueue", "record", "ack", "move"}
       THEN \E c \in Hands : cur = {c} /\ inbox[c.name] = c.doc
       ELSE cur = {}
    /\ handled \in [Counted -> 0..2]

\* An id that was answered, remembered or logged as ACCEPTED has its record in
\* the queue file, whatever was torn, swallowed or interrupted since
\* (enqueue_payload verifies before poll_inbox records and acknowledges).  Only a
\* record that a crash left without its newline can be lost again, to the next
\* append, and then never silently: from that file no process starts.
AcceptedIsQueued ==
    \A i \in Ids :
        \/ acks[i] = "ACCEPTED"
        \/ \E c \in consumed \cup Readable(ledgerFile) : c.id = i /\ c.decision = "ACCEPTED"
        => \/ i \in IdsOf(Readable(queueFile))
           \/ i \in IdsOf(spoiled) /\ broken

\* While the ledger file has a decision about an id, no later file, poll or
\* process adds another decision, or a record of the id to the queue
\* (is_consumed stands before enqueue_payload, over a reloaded ledger).  A
\* decision leaves the file only from a last line without its newline.
DecidedStaysDecided ==
    [][\A c \in Readable(ledgerFile) :
        LET now == {d \in Readable(ledgerFile') : d.id = c.id}
        IN  /\ now \subseteq {c}
            /\ now = {c} \/ c \in ledgerFile.tail
            /\ \A r \in Readable(queueFile') \ Readable(queueFile) : r.id # c.id]_vars

\* No file stays in the inbox for ever, once crashes and failing moves cease,
\* unless a torn line in the queue keeps the watcher from starting.
InboxDrains ==
    <>[][~Crash]_vars /\ <>[][~MoveFails]_vars
    => \A n \in Names : inbox[n] # NoDoc ~> inbox[n] = NoDoc \/ broken

\* replay_ledger.py:5, "Guarantees directive_ids are processed at most once
\* across process restarts": no id is decided twice.
ProcessedOnce == \A i \in Counted : handled[i] <= 1

=============================================================================
