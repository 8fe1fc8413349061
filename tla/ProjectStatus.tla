----------------------------- MODULE ProjectStatus -----------------------------
(***************************************************************************)
(* The observation and the evaluation of a monitored project               *)
(* (git_observer.py, process_observer.py, evidence_collector.py,           *)
(* evaluator.py).  The repository, the process table and the evidence      *)
(* files are read one after the other while the project goes on working,   *)
(* so each read takes any value; then one status is derived from what was  *)
(* seen.                                                                   *)
(***************************************************************************)
EXTENDS Integers, FiniteSets, Sequences, FileRecords

CONSTANT Written  \* what an evidence file may say

\* The files of a project in the order of its registry entry.  (ORACLE-AI has an
\* AGENT_STATUS in place of PROJECT_STATE, and texts that declare nothing.)
StateFiles == <<"CURRENT_STAGE", "PROJECT_STATE", "WATCHER_STATE">>
ProjectLevel == {"CURRENT_STAGE", "PROJECT_STATE"}
Tier == [CURRENT_STAGE |-> 5, PROJECT_STATE |-> 4]
Declared == {"PASS", "DEVELOPING", "RUNNING", "UNKNOWN"}
\* A commit: the head that the remote branch has when it is asked, or another.
Revisions == {"pushed", "other"}
\* A file that exists (and may be torn, then it says nothing): its status, the
\* status and the time in its heartbeat, whether it asks for a human, and its
\* last_commit.
Evidences ==
    [here : BOOLEAN, says : Declared \cup {Nobody}, pulse : Declared \cup {Nobody},
     beat : {"none", "fresh", "old"}, human : BOOLEAN, commit : Revisions \cup {Nobody}]

ASSUME ProjectStatusAssumption == Written \subseteq Evidences

VARIABLES
    subject, \* of the registry: is it ORACLE-AI, default_process_expected
    seen,    \* what the observation under way has read
    status   \* what the last evaluation returned, or Nobody

pvars == <<subject, seen, status>>

\* What the commands leave: git rev-parse HEAD may fail or run out of its time
\* (Nobody) though ls-remote answers after it, and without a repository or a
\* branch neither is asked.
RemoteAnswers == {"pushed", "gone", "AUTH_FAILURE", "NETWORK_FAILURE", "TIMEOUT", "error", "not asked"}
GitAnswers ==
    {a \in [local : Revisions \cup {Nobody}, remote : RemoteAnswers] :
        a.remote = "not asked" => a.local = Nobody}
NotSeen == [git |-> Nobody, running |-> Nobody, files |-> <<>>]
PInit ==
    /\ subject \in [oracle : BOOLEAN, expected : BOOLEAN]
    /\ seen = NotSeen /\ status = Nobody

----------------------------------------------------------------------------
(* The observation. *)
ReadGit(answer) == seen.git = Nobody /\ seen' = [seen EXCEPT !.git = answer] /\ UNCHANGED <<subject, status>>
ReadProcesses(running) ==
    /\ seen.git # Nobody /\ seen.running = Nobody
    /\ seen' = [seen EXCEPT !.running = running] /\ UNCHANGED <<subject, status>>
ReadFile(w) ==
    /\ seen.running # Nobody /\ Len(seen.files) < Len(StateFiles)
    /\ seen' = [seen EXCEPT !.files = Append(@, w)] /\ UNCHANGED <<subject, status>>

----------------------------------------------------------------------------
(* The evaluation. *)
Unexpected == ~ subject.expected /\ seen.running
ReadIndices == {i \in DOMAIN seen.files : seen.files[i].here}

\* The local head, or else the last_commit in PROJECT_STATE.
LocalHeads ==
    IF seen.git.local # Nobody THEN {seen.git.local}
    ELSE {seen.files[i].commit : i \in {j \in ReadIndices : StateFiles[j] = "PROJECT_STATE"}} \ {Nobody}
\* remote_query_stderr_category and the verification of the head: a head that
\* differs is a conflict, a remote that gives no answer leaves the local head,
\* and where no local head is known nothing is compared.
HeadVerification ==
    CASE seen.git.remote = "pushed" -> IF "other" \in LocalHeads THEN "CONFLICT" ELSE "VERIFIED"
      [] seen.git.remote = "gone" -> "BRANCH_NOT_FOUND"
      [] seen.git.remote \in {"error", "not asked"} ->
            IF LocalHeads # {} THEN "LOCAL_ONLY" ELSE "GIT_FAILURE"
      [] OTHER -> seen.git.remote
\* declared_statuses: the status of a file, or else that in its heartbeat,
\* which counts as tier 2.  WATCHER_STATE is looked at for its heartbeat only.
Declarations ==
    {d \in UNION {LET f == StateFiles[i]
                      w == seen.files[i]
                  IN IF f \in ProjectLevel /\ w.says # Nobody
                     THEN {[file |-> f, value |-> w.says, tier |-> Tier[f]]}
                     ELSE {[file |-> f, value |-> w.pulse, tier |-> 2]} : i \in ReadIndices} :
        d.value \notin {"UNKNOWN", Nobody}}
Values == {d.value : d \in Declarations}
\* The heartbeat that counts is that of the last file that has one.
Beats == {i \in ReadIndices : seen.files[i].beat # "none"}
Overdue == Beats # {} /\ seen.files[CHOOSE i \in Beats : \A j \in Beats : j <= i].beat = "old"
HumanAsked == \E i \in ReadIndices : StateFiles[i] = "PROJECT_STATE" /\ seen.files[i].human

\* Mutant of Disagree: the levels are counted, not the values.
BadDisagree(decls) == Cardinality({d.tier : d \in decls}) > 1
Disagree(decls) == Cardinality({d.value : d \in decls}) > 1
StateConflict ==
    \/ Disagree(Declarations)
    \/ subject.expected /\ ~ seen.running /\ "RUNNING" \in Values
    \/ Unexpected

\* The declarations that win: the lowest tier of those of the project, if there
\* are any.  Of several, the one that the set iterates first, which differs from
\* process to process.
Winners ==
    LET own == {d \in Declarations : d.file \in ProjectLevel}
        target == IF own # {} THEN own ELSE Declarations
    IN {d \in target : \A e \in target : d.tier <= e.tier}
StatusOf(value) ==
    IF value = "PASS" THEN (IF subject.oracle THEN "COMPLETED" ELSE "IDLE_VALID")
    ELSE IF value = "DEVELOPING" THEN "DEVELOPING" ELSE "IDLE_VALID"
PossibleStatuses ==
    IF subject.expected THEN {IF seen.running THEN "RUNNING" ELSE "STALE"}
    ELSE IF HumanAsked THEN {"HUMAN_REQUIRED"}
    ELSE IF ReadIndices = {} THEN {"UNKNOWN"}
    ELSE IF Overdue THEN {"STALE"}
    ELSE IF Winners = {} THEN {"IDLE_VALID"} ELSE {StatusOf(d.value) : d \in Winners}

Evaluate(canonical) ==
    /\ Len(seen.files) = Len(StateFiles) /\ status = Nobody
    /\ canonical \in PossibleStatuses
    /\ status' = [value |-> canonical,
                  verification |-> IF StateConflict THEN "CONFLICT"
                                   ELSE IF HeadVerification = "VERIFIED" THEN "VERIFIED"
                                   ELSE "LOCAL_ONLY"]
    /\ UNCHANGED <<subject, seen>>
NextSweep == status # Nobody /\ seen' = NotSeen /\ status' = Nobody /\ UNCHANGED subject

PNext ==
    \/ \E answer \in GitAnswers : ReadGit(answer)
    \/ \E running \in BOOLEAN : ReadProcesses(running)
    \/ \E w \in Written : ReadFile(w)
    \/ \E canonical \in {"RUNNING", "STALE", "HUMAN_REQUIRED", "UNKNOWN", "COMPLETED",
                         "IDLE_VALID", "DEVELOPING"} : Evaluate(canonical)
    \/ NextSweep
PSpec == PInit /\ [][PNext]_pvars

----------------------------------------------------------------------------
PTypeOK ==
    /\ seen.git \in GitAnswers \cup {Nobody} /\ seen.running \in BOOLEAN \cup {Nobody}
    /\ Len(seen.files) <= Len(StateFiles)
    /\ \A i \in DOMAIN seen.files : seen.files[i] \in Evidences
    /\ status # Nobody => status.verification \in {"VERIFIED", "CONFLICT", "LOCAL_ONLY"}

\* A status that is published as VERIFIED is the only one that can be derived
\* from what was seen, so that no other process would publish another; every
\* file that declares a status declares the same, the remote head was seen and
\* no local head contradicts it, and no file says RUNNING of a process that is
\* expected and does not run.  (Evidence is gathered in steps, precedence by tier
\* and the conflict rules of evaluator.py.  That a local head agrees is not
\* implied: it need not be known.)
VerifiedIsUnambiguous ==
    (status # Nobody /\ status.verification = "VERIFIED") =>
        /\ PossibleStatuses = {status.value}
        /\ seen.git.remote = "pushed" /\ "other" \notin LocalHeads
        /\ \A d, e \in Declarations : d.value = e.value
        /\ subject.expected /\ "RUNNING" \in Values => status.value = "RUNNING"
=============================================================================
