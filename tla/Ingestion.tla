----------------------------- MODULE Ingestion -----------------------------
(***************************************************************************)
(* AF-04: ingestors turn the lines of the append-only queue file into      *)
(* tasks with a durable provenance binding.  An ingestor reads the whole   *)
(* file once, compares it with the rows it has already committed, and      *)
(* commits the remaining lines one transaction each; several runtimes over *)
(* one database may do so at the same time.  The file is written by        *)
(* somebody else, line by line, and may lose lines.                        *)
(*                                                                         *)
(* A line is its directive id, the binding that makes its provenance row   *)
(* (idempotency key, hashes, path, signer, target, action), whether it was *)
(* written as read-back verified, and whether its newline is still to      *)
(* come: such a line parses, and its hash is not that of the finished one. *)
(* All ingestors are configured with the same queue path.                  *)
(***************************************************************************)
EXTENDS Naturals, Sequences, FiniteSets

CONSTANTS
    Ingestors,  \* runtimes that share one database
    Ids, Keys,  \* directive ids and provenance bindings
    Lines,      \* the lines that may be written
    Producers,  \* who writes the file: "queue" (DurableExecutionQueue), "other"
    MaxLines,   \* bound of the model on the length of the file
    Torn,       \* a line that does not parse
    NoLine

ASSUME IngestionAssumption ==
    /\ MaxLines \in Nat /\ Producers \subseteq {"queue", "other"}
    /\ Lines \subseteq [id: Ids, key: Keys, verified: BOOLEAN, cut: {FALSE}]
    /\ Torn \notin [id: Ids, key: Keys, verified: BOOLEAN, cut: BOOLEAN]
    /\ NoLine \notin Lines

VARIABLES
    file,       \* the lines of the queue file
    writing,    \* the line whose append is under way
    altered,    \* a readable line was removed or written on (history)
    rows,       \* runtime_queue_records, in the order of sequence
    tasks,      \* tasks with their autonomy_provenance
    ing         \* what each ingestor has in memory

queue == <<file, writing, altered>>
store == <<rows, tasks>>
ivars == <<queue, store, ing>>

\* The line without its newline, and the lines that parse.
Cut(l) == [l EXCEPT !.cut = TRUE]
Readable == Lines \cup {Cut(l) : l \in Lines}
Task(l) == [id |-> l.id, key |-> l.key]
Elements(s) == {s[k] : k \in DOMAIN s}
IsPrefixOf(s, t) == Len(s) <= Len(t) /\ \A k \in DOMAIN s : s[k] = t[k]

Results == {"OK", "BLOCKED", "INTEGRITY_BLOCKED", "TRANSIENT"}
Stages == {"idle", "compare", "count", "record", "bind"}
Idle == [pc |-> "idle", lines |-> <<>>, at |-> 0]

IInit ==
    /\ file = <<>> /\ writing = NoLine /\ altered = FALSE
    /\ rows = <<>> /\ tasks = {}
    /\ ing = [i \in Ingestors |-> Idle]

----------------------------------------------------------------------------
(* The file, as others write it. *)

\* enqueue_payload serialises the item while its readback_verified is False and
\* sets it in memory afterwards; other producers write what they like.
Written(l) == ("queue" \in Producers /\ ~l.verified) \/ "other" \in Producers

SetLast(l) == file' = [file EXCEPT ![Len(file)] = l]
EndsCut == file # <<>> /\ file[Len(file)] \in Readable \ Lines

\* The line is being written: a reader sees the beginning of it ...
BeginAppend(l) ==
    /\ writing = NoLine /\ Len(file) < MaxLines /\ Torn \notin Elements(file)
    /\ ~EndsCut /\ Written(l)
    /\ file' = Append(file, Torn) /\ writing' = l
    /\ UNCHANGED <<altered, store, ing>>
\* ... then the whole JSON ...
WriteBody ==
    /\ writing # NoLine /\ ~EndsCut
    /\ SetLast(Cut(writing))
    /\ UNCHANGED <<writing, altered, store, ing>>
\* ... then the newline, too.
FinishAppend ==
    /\ writing # NoLine
    /\ SetLast(writing) /\ writing' = NoLine
    /\ UNCHANGED <<altered, store, ing>>
\* The writer dies; the line stays as it is.
AbandonAppend ==
    /\ writing # NoLine
    /\ writing' = NoLine
    /\ UNCHANGED <<file, altered, store, ing>>
\* The next append goes on after a line without its newline.
AppendToCut ==
    /\ writing = NoLine /\ EndsCut
    /\ SetLast(Torn) /\ altered' = TRUE
    /\ UNCHANGED <<writing, store, ing>>
\* Somebody edits the file; taking out a torn line repairs it.
RemoveLine(k) ==
    /\ writing = NoLine /\ k \in DOMAIN file
    /\ file' = [n \in 1..(Len(file) - 1) |-> IF n < k THEN file[n] ELSE file[n + 1]]
    /\ altered' = (altered \/ file[k] # Torn)
    /\ UNCHANGED <<writing, store, ing>>

----------------------------------------------------------------------------
(* DirectiveTaskIngestor. *)

Goes(i, pc) == ing' = [ing EXCEPT ![i].pc = pc]
\* ingest returns or raises; what it read is forgotten.
Ends(i, result) == ing' = [ing EXCEPT ![i] = [Idle EXCEPT !.pc = result]]
\* _block_source and IntegrityBlockedError; the projection row that says why is
\* left out, nothing decides by it.
Block(i) == Ends(i, "INTEGRITY_BLOCKED") /\ UNCHANGED store

\* read_records takes the bytes of the file ...
ReadFile(i) ==
    /\ ing[i].pc = "idle"
    /\ ing' = [ing EXCEPT ![i] = [pc |-> "compare", lines |-> file, at |-> 0]]
    /\ UNCHANGED <<queue, store>>

\* ... of which every line must parse, and whose beginning must be what was
\* committed before.
Intact(i) ==
    Torn \notin Elements(ing[i].lines) /\ IsPrefixOf(rows, ing[i].lines)
Compare(i) ==
    /\ ing[i].pc = "compare" /\ Intact(i)
    /\ Goes(i, "count")
    /\ UNCHANGED <<queue, store>>
CompareFails(i) ==
    /\ ing[i].pc = "compare" /\ ~Intact(i)
    /\ Block(i)
    /\ UNCHANGED queue

\* ingest counts the rows again and goes on behind them.
CountRows(i) ==
    /\ ing[i].pc = "count"
    /\ ing' = [ing EXCEPT ![i] = [pc |-> "record", lines |-> @.lines, at |-> Len(rows) + 1]]
    /\ UNCHANGED <<queue, store>>

Finish(i) ==
    /\ ing[i].pc = "record" /\ ing[i].at > Len(ing[i].lines)
    /\ Ends(i, "OK")
    /\ UNCHANGED <<queue, store>>

Current(i) == ing[i].lines[ing[i].at]

\* _validate and _verify accept the line.
Accept(i) ==
    /\ ing[i].pc = "record" /\ ing[i].at <= Len(ing[i].lines)
    /\ Current(i).verified
    /\ Goes(i, "bind")
    /\ UNCHANGED <<queue, store>>
\* A line that is not execution-ready blocks, in this and in every later cycle.
Invalid(i) ==
    /\ ing[i].pc = "record" /\ ing[i].at <= Len(ing[i].lines)
    /\ ~Current(i).verified
    /\ Ends(i, "BLOCKED")
    /\ UNCHANGED <<queue, store>>
\* Git, the remote or the signer does not confirm it this time.
Refuse(i) ==
    /\ ing[i].pc = "record" /\ ing[i].at <= Len(ing[i].lines)
    /\ Current(i).verified
    /\ Ends(i, "BLOCKED")
    /\ UNCHANGED <<queue, store>>

\* Mutant of Rebound: the directive id alone decides what is a duplicate.
BadRebound(l) == FALSE
\* Mutant of Rebound: a task of the directive is a conflict, whatever its binding.
StrictRebound(l) == \E t \in tasks : t.id = l.id
\* There is a task of the directive with another binding.
Rebound(l) == \E t \in tasks : t.id = l.id /\ t # Task(l)
\* The sequence number was committed meanwhile, with another line.
Rewritten(i) == ing[i].at <= Len(rows) /\ rows[ing[i].at] # Current(i)

\* Mutant of Bind: the row takes the next free sequence number.
BadBind(i) ==
    /\ ing[i].pc = "bind" /\ ~Rewritten(i) /\ ~Rebound(Current(i))
    /\ tasks' = tasks \cup {Task(Current(i))} /\ rows' = Append(rows, Current(i))
    /\ ing' = [ing EXCEPT ![i] = [pc |-> "record", lines |-> @.lines, at |-> @.at + 1]]
    /\ UNCHANGED queue
\* The transaction of one line.
Bind(i) ==
    /\ ing[i].pc = "bind" /\ ~Rewritten(i) /\ ~Rebound(Current(i))
    /\ tasks' = tasks \cup {Task(Current(i))}
    /\ rows' = IF ing[i].at <= Len(rows) THEN rows ELSE Append(rows, Current(i))
    /\ ing' = [ing EXCEPT ![i] = [pc |-> "record", lines |-> @.lines, at |-> @.at + 1]]
    /\ UNCHANGED queue
BindConflict(i) ==
    /\ ing[i].pc = "bind" /\ (Rewritten(i) \/ Rebound(Current(i)))
    /\ Block(i)
    /\ UNCHANGED queue
\* BEGIN IMMEDIATE finds the database locked: BlockedError("store busy").
BindBusy(i) ==
    /\ ing[i].pc = "bind"
    /\ Ends(i, "BLOCKED")
    /\ UNCHANGED <<queue, store>>
\* The statements before it are not guarded: sqlite3.OperationalError.
ReadBusy(i) ==
    /\ ing[i].pc \in {"compare", "count"}
    /\ Ends(i, "TRANSIENT")
    /\ UNCHANGED <<queue, store>>

\* The caller takes the result.
Rest(i) ==
    /\ ing[i].pc \in Results
    /\ ing' = [ing EXCEPT ![i] = Idle]
    /\ UNCHANGED <<queue, store>>
\* The process ends; a transaction that was not committed leaves no trace.
Lose(i) ==
    /\ ing[i] # Idle
    /\ ing' = [ing EXCEPT ![i] = Idle]
    /\ UNCHANGED <<queue, store>>

----------------------------------------------------------------------------

IngestStep(i) ==
    \/ Compare(i) \/ CompareFails(i) \/ CountRows(i) \/ Finish(i)
    \/ Accept(i) \/ Invalid(i) \/ Refuse(i)
    \/ Bind(i) \/ BindConflict(i) \/ BindBusy(i) \/ ReadBusy(i)
FileStep ==
    \/ \E l \in Lines : BeginAppend(l)
    \/ WriteBody \/ FinishAppend \/ AbandonAppend \/ AppendToCut
    \/ \E k \in 1..MaxLines : RemoveLine(k)

INext ==
    \/ FileStep
    \/ \E i \in Ingestors : ReadFile(i) \/ IngestStep(i) \/ Rest(i) \/ Lose(i)

ISpec == IInit /\ [][INext]_ivars

----------------------------------------------------------------------------
(* Properties. *)

\* Shapes of the variables; what ingest goes through has only lines that parse
\* (read_records).
ITypeOK ==
    /\ file \in Seq(Readable \cup {Torn}) /\ rows \in Seq(Readable)
    /\ writing \in Lines \cup {NoLine} /\ altered \in BOOLEAN
    /\ tasks \subseteq [id: Ids, key: Keys]
    /\ ing \in [Ingestors -> [pc: Stages \cup Results,
                             lines: Seq(Readable \cup {Torn}), at: Nat]]
    /\ \A i \in Ingestors : ing[i].pc \in Stages \ {"idle", "compare"}
        => ing[i].lines \in Seq(Readable)

\* The tasks are the committed lines, and a directive has one task, whatever
\* ingestors race, crash or repeat (the re-checks inside the transaction).
OneTaskPerDirective ==
    /\ tasks = {Task(l) : l \in Elements(rows)}
    /\ \A t, u \in tasks : t.id = u.id => t = u

\* The lines of s are the first ones of t, read with or before their newlines.
Follows(s, t) ==
    /\ Len(s) <= Len(t)
    /\ \A k \in DOMAIN s : t[k] # Torn /\ s[k] \in {t[k], Cut(t[k])}

\* Unless somebody alters its lines, the committed rows are the beginning of the
\* file: nothing is skipped, swapped or committed twice.  A row may be of a line
\* that was read before its newline.
RowsFollowFile == ~altered => Follows(rows, file)

=============================================================================
