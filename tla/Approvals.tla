----------------------------- MODULE Approvals -----------------------------
(***************************************************************************)
(* Human approvals (approval_engine.py) and their use by an executor, as   *)
(* E2ERunner does it: the record is taken from the memory of the engine,   *)
(* revalidated, the work is done under a token, and only then the approval *)
(* is consumed.  The policy also takes approval data without a record, and *)
(* then asks nobody.  An engine reads its file once and rewrites the whole *)
(* file at every change, truncating it first; it may be killed anywhere.   *)
(***************************************************************************)
EXTENDS Integers, FiniteSets, Clock, FileRecords

CONSTANTS
    ApprovalEngines, Executors,
    Requests,   \* what approval_request_ids stand for
    Actions,    \* directive, capability, parameters, target and risk of a request
    Approvers,  \* AUTHORIZED_APPROVERS
    Actors,     \* who calls the engine
    ApprovalTtl \* ttl_seconds

ASSUME ApprovalAssumption ==
    /\ ApprovalTtl \in Nat /\ Nobody \notin Requests \cup Approvers \cup Actors

VARIABLES
    approvalsFile, \* the records that can be read from the file
    held,          \* the records of each engine
    io,            \* the engine is rewriting the file, or it is down
    work,          \* what each executor holds: a token for an approval
    created,       \* history: what each request was created for
    signed,        \* history: who approved a request, on whose call, until when
    spent,         \* history: the approvals of which a consumption reached the file
    executed       \* history: the executions under a record

avars == <<now, approvalsFile, held, io, work, created, signed, spent, executed>>

TERMINAL_APPROVAL_STATES == {"REJECTED", "EXPIRED", "REVOKED", "CONSUMED"}
VALID_APPROVAL_TRANSITIONS ==
    [REQUESTED |-> {"NOTIFIED", "EXPIRED", "REJECTED"},
     NOTIFIED |-> {"APPROVED", "REJECTED", "EXPIRED"},
     APPROVED |-> {"REVOKED", "CONSUMED", "EXPIRED"}]
ApprovalState == DOMAIN VALID_APPROVAL_TRANSITIONS \cup TERMINAL_APPROVAL_STATES

NoWork == [req |-> Nobody, by |-> Nobody]

AInit ==
    /\ now = 0 /\ approvalsFile = {} /\ held = [e \in ApprovalEngines |-> {}]
    /\ io = [e \in ApprovalEngines |-> "down"]
    /\ work = [w \in Executors |-> NoWork]
    /\ created = {} /\ signed = {} /\ spent = {} /\ executed = {}

----------------------------------------------------------------------------
(* Memory and file. *)

LoadRecords(e) ==
    /\ io[e] = "down"
    /\ io' = [io EXCEPT ![e] = "ready"] /\ held' = [held EXCEPT ![e] = approvalsFile]
    /\ UNCHANGED <<now, approvalsFile, work, created, signed, spent, executed>>
\* _persist, in two steps.
TruncateAll(e) ==
    /\ io[e] = "dirty"
    /\ io' = [io EXCEPT ![e] = "torn"] /\ approvalsFile' = {}
    /\ UNCHANGED <<now, held, work, created, signed, spent, executed>>
WriteAll(e) ==
    /\ io[e] = "torn"
    /\ io' = [io EXCEPT ![e] = "ready"] /\ approvalsFile' = held[e]
    /\ spent' = spent \cup {x.id : x \in {y \in held[e] : y.state = "CONSUMED"}}
    /\ UNCHANGED <<now, held, work, created, signed, executed>>
\* The executors die with their engine.  Of a file under way any part may be
\* there; _load keeps the records before a bad line.
CrashEngine(e) ==
    /\ io[e] # "down"
    /\ io' = [io EXCEPT ![e] = "down"] /\ held' = [held EXCEPT ![e] = {}]
    /\ approvalsFile' \in IF io[e] = "torn" THEN SUBSET held[e] ELSE {approvalsFile}
    /\ work' = [w \in Executors |-> IF work[w].by = e THEN NoWork ELSE work[w]]
    /\ UNCHANGED <<now, created, signed, spent, executed>>
ATick == Advance
        /\ UNCHANGED <<approvalsFile, held, io, work, created, signed, spent, executed>>

Store(e, x) ==
    /\ held' = [held EXCEPT ![e] = With(@, x)]
    /\ io' = [io EXCEPT ![e] = "dirty"]

----------------------------------------------------------------------------
(* DurableApprovalEngine.  No approval waits for the delivery of a          *)
(* notification, and none follows from it: NotificationManager is left out. *)

\* create_request: the identifier is a hash of the action and the time.
Create(e, r, a) ==
    /\ io[e] = "ready" /\ ~ \E c \in created : c.id = r
    /\ Store(e, [id |-> r, action |-> a, state |-> "REQUESTED", expires |-> now + ApprovalTtl])
    /\ created' = created \cup {[id |-> r, action |-> a]}
    /\ UNCHANGED <<now, approvalsFile, work, signed, spent, executed>>
Expired(x) == now > x.expires
\* Mutant of MayTurn: terminal records are not refused.
BadMayTurn(x, to) == TRUE
MayTurn(x, to) ==
    /\ x.state \notin TERMINAL_APPROVAL_STATES
    /\ to \in VALID_APPROVAL_TRANSITIONS[x.state]
MaySign(approver, actor) == approver \in Approvers /\ approver # actor

\* A call on a record that is over is answered with its expiry, which is stored.
Expire(e, r) ==
    /\ io[e] = "ready" /\ Has(held[e], r)
    /\ LET x == Rec(held[e], r) IN
        /\ Expired(x) /\ x.state \notin TERMINAL_APPROVAL_STATES
        /\ Store(e, [x EXCEPT !.state = "EXPIRED"])
    /\ UNCHANGED <<now, approvalsFile, work, created, signed, spent, executed>>
\* transition_state to anything but CONSUMED, which is the executor's.
Turn(e, r, to, actor, approver) ==
    /\ io[e] = "ready" /\ Has(held[e], r)
    /\ LET x == Rec(held[e], r) IN
        /\ ~ Expired(x) /\ MayTurn(x, to)
        /\ to = "APPROVED" => MaySign(approver, actor)
        /\ Store(e, [x EXCEPT !.state = to])
        /\ signed' = IF to # "APPROVED" THEN signed ELSE signed \cup
               {[id |-> r, approver |-> approver, actor |-> actor, expires |-> x.expires]}
    /\ UNCHANGED <<now, approvalsFile, work, created, spent, executed>>

----------------------------------------------------------------------------
(* Execution under an approval. *)

\* Mutant of Revalidated: the record is not compared with what is to be done.
BadRevalidated(x, a) == x.state = "APPROVED" /\ ~ Expired(x)
\* revalidate_approval_for_execution; the flags consumed and revoked are set
\* together with the states of that name.
Revalidated(x, a) == x.state = "APPROVED" /\ ~ Expired(x) /\ x.action = a
\* evaluate_execution_authorization of action a, with the record of an approval:
\* the executor holds a token.
Authorise(w, e, r, a) ==
    /\ io[e] = "ready" /\ work[w] = NoWork /\ Has(held[e], r)
    /\ Revalidated(Rec(held[e], r), a)
    /\ work' = [work EXCEPT ![w] = [req |-> r, by |-> e]]
    /\ executed' = executed \cup {[id |-> r, action |-> a, at |-> now, afterSpent |-> r \in spent]}
    /\ UNCHANGED <<now, approvalsFile, held, io, created, signed, spent>>
\* The same without a record: the approval data repeats directive and parameters
\* of what is to be done, names any request, and nothing else is asked.
AuthoriseUnseen(w, e, r) ==
    /\ io[e] = "ready" /\ work[w] = NoWork
    /\ work' = [work EXCEPT ![w] = [req |-> r, by |-> e]]
    /\ UNCHANGED <<now, approvalsFile, held, io, created, signed, spent, executed>>
\* After the work: transition_state(CONSUMED), whose refusal is not looked at.
Consumable(x) == IF Expired(x) THEN x.state \notin TERMINAL_APPROVAL_STATES ELSE MayTurn(x, "CONSUMED")
Consume(w) ==
    LET r == work[w].req
        e == work[w].by
        x == Rec(held[e], r) IN
    /\ r # Nobody /\ io[e] = "ready" /\ work' = [work EXCEPT ![w] = NoWork]
    /\ IF Has(held[e], r) /\ Consumable(x)
       THEN Store(e, [x EXCEPT !.state = IF Expired(x) THEN "EXPIRED" ELSE "CONSUMED"])
       ELSE UNCHANGED <<held, io>>
    /\ UNCHANGED <<now, approvalsFile, created, signed, spent, executed>>

ANext ==
    \/ ATick
    \/ \E e \in ApprovalEngines :
        \/ LoadRecords(e) \/ TruncateAll(e) \/ WriteAll(e) \/ CrashEngine(e)
        \/ \E r \in Requests :
            \/ \E a \in Actions : Create(e, r, a)
            \/ Expire(e, r)
            \/ \E to \in {"NOTIFIED", "APPROVED", "REJECTED", "REVOKED"}, actor \in Actors,
                  approver \in Actors \cup Approvers : Turn(e, r, to, actor, approver)
            \/ \E w \in Executors :
                  AuthoriseUnseen(w, e, r) \/ \E a \in Actions : Authorise(w, e, r, a)
    \/ \E w \in Executors : Consume(w)
ASpec == AInit /\ [][ANext]_avars

----------------------------------------------------------------------------
ATypeOK ==
    /\ now \in 0 .. MaxTime
    /\ \A recs \in {approvalsFile} \cup {held[e] : e \in ApprovalEngines} :
        \A x \in recs : x.id \in Requests /\ x.action \in Actions /\ x.state \in ApprovalState
    /\ io \in [ApprovalEngines -> {"down", "ready", "dirty", "torn"}]
    /\ spent \subseteq Requests

\* What is executed under the record of an approval is the very action that was
\* asked for, somebody allowed to approve it did so on another one's call, and
\* it happens in time: through crashes that lose part of the file, expiry,
\* executors that overlap, and consumptions by those who showed no record.  An
\* execution without a record (AuthoriseUnseen) has none of this.
ExecutedAsApproved ==
    \A x \in executed :
        /\ [id |-> x.id, action |-> x.action] \in created
        /\ \E s \in signed :
            /\ s.id = x.id /\ s.approver \in Approvers
            /\ s.approver # s.actor /\ x.at <= s.expires

\* "Single-use consumption" (approval_engine.py:232) as far as it goes for one
\* engine: two executors may hold one approval at a time, but once its
\* consumption has reached the file no execution is authorised by its record
\* again, whatever is crashed, lost and loaded after that.
SpentIsSpent == \A x \in executed : ~ x.afterSpent
=============================================================================
