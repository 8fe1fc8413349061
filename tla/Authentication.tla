---------------------------- MODULE Authentication ----------------------------
(***************************************************************************)
(* Who may hand in a directive, and whether it is still trusted when it is *)
(* about to be executed: DirectiveAuthenticator.authenticate and           *)
(* revalidate_before_execution, and PreExecutionRevalidator.revalidate.    *)
(* A check reads the clock, then asks the remote, then Git for the         *)
(* signature, then for the content: several commands with timeouts.  The   *)
(* commits of the repository do not change; what is reachable from the     *)
(* remote branch, which signatures Git verifies, which keys are allowed,   *)
(* whether the remote answers and the time do, also between two of them.   *)
(***************************************************************************)
EXTENDS Integers, FileRecords

CONSTANTS
    Commits, Keys, Bodies, Missing,
    Repo,  \* per commit: the content at the directive's own path and at <directive_id>.json, the key that signed it
    Inbox  \* the directive files that are handed in

Paths == {"own", "id"}
\* A file: its envelope (source, branch, commit, hash) and what of its payload is looked at.
Files ==
    [source : BOOLEAN, branch : BOOLEAN, commit : Commits \cup {Missing},
     hash : Bodies \cup {Nobody}, path : Paths,
     times : {"good", "unparsable", "future"}, action : {"allowed", "human", "prohibited"}]
\* The record of a queued directive: with the hash of the committed content and the signer.
Items == [file : Files, hash : Bodies, signer : Keys, readback : BOOLEAN]

ASSUME AuthenticationAssumption ==
    /\ Missing \notin Bodies \cup Commits /\ Nobody \notin Bodies \cup Keys \cup Items
    /\ Repo \in [Commits -> [own : Bodies \cup {Missing}, id : Bodies \cup {Missing},
                             key : Keys \cup {Nobody}]]
    /\ Inbox \subseteq Files

VARIABLES
    reach,    \* commits reachable from the head that ls-remote returns
    up,       \* the remote answers
    verifies, \* commits whose signature git verify-commit accepts
    allowed,  \* TRUSTED_SIGNER_ALLOWLIST
    late,     \* expires_at has passed
    setting,  \* REQUIRE_COMMIT_SIGNATURE_VERIFICATION, CONTROL_PLANE_EXECUTE_MUTATING_DIRECTIVES
    item,     \* the queued record of the directive, or Nobody
    look,     \* the check under way, or Nobody
    since,    \* history: what held of its commit at some moment since it began
    cleared   \* history: the revalidation that has just let the directive through

gitWorld == <<reach, up, verifies, allowed, late>>
cvars == <<gitWorld, setting, item, look, since, cleared>>

WorldInit ==
    /\ reach = Commits /\ up = TRUE /\ late = FALSE
    /\ verifies = {c \in Commits : Repo[c].key # Nobody} /\ allowed = Keys
NothingAsked == item = Nobody /\ look = Nobody /\ since = {} /\ cleared = Nobody
AuthInit == WorldInit /\ NothingAsked /\ setting \in [signed : BOOLEAN, mutating : BOOLEAN]

Blob(c, path) == Repo[c][path]
\* What a verification of the commit yields: the fingerprint of its key, or nothing.
Signer(c) == IF c \in verifies THEN Repo[c].key ELSE Nobody

Conditions == {"reachable", "verified", "listed", "timely"}
\* What holds of a commit now.
Holding(c) ==
    {t \in Conditions :
        \/ t = "reachable" /\ up /\ c \in reach
        \/ t = "verified" /\ c \in verifies
        \/ t = "listed" /\ Repo[c].key \in allowed
        \/ t = "timely" /\ ~ late}

----------------------------------------------------------------------------
(* The world moves, also while a check waits for Git.  Keys are revoked and *)
(* renewed, delisted and listed again.                                      *)
WorldMoves ==
    /\ cleared' = Nobody /\ UNCHANGED <<setting, item, look>>
    /\ since' = IF look = Nobody THEN {} ELSE since \cup Holding(look.file.commit)'
Push == reach' \in (SUBSET Commits) \ {reach} /\ UNCHANGED <<up, verifies, allowed, late>> /\ WorldMoves
Outage == up' = ~ up /\ UNCHANGED <<reach, verifies, allowed, late>> /\ WorldMoves
Revoke(c) ==
    /\ Repo[c].key # Nobody
    /\ verifies' = IF c \in verifies THEN verifies \ {c} ELSE verifies \cup {c}
    /\ UNCHANGED <<reach, up, allowed, late>> /\ WorldMoves
Delist(k) ==
    /\ allowed' = IF k \in allowed THEN allowed \ {k} ELSE allowed \cup {k}
    /\ UNCHANGED <<reach, up, verifies, late>> /\ WorldMoves
Lapse == ~ late /\ late' = TRUE /\ UNCHANGED <<reach, up, verifies, allowed>> /\ WorldMoves

----------------------------------------------------------------------------
(* The steps of a check. *)

\* authenticate and revalidate_before_execution begin: the clock is read, the
\* commit is there.
Begin(by, f) ==
    /\ look = Nobody /\ f.commit \in Commits
    /\ look' = [by |-> by, file |-> f, pc |-> "remote", late |-> late, signer |-> Nobody]
    /\ since' = Holding(f.commit) /\ cleared' = Nobody
    /\ UNCHANGED <<gitWorld, setting, item>>
\* The watcher authenticates a file, if its envelope is of the approved source.
Examine(f) == item = Nobody /\ f.source /\ f.branch /\ Begin("watcher", f)
\* PreExecutionRevalidator.revalidate: the queued record is authenticated again,
\* at the path <directive_id>.json whatever the file was called.
Revalidate ==
    /\ item # Nobody /\ item.readback
    /\ Begin("executor", [item.file EXCEPT !.source = TRUE, !.branch = TRUE,
                                           !.hash = item.hash, !.path = "id"])
\* revalidate_before_execution, with the envelope and the path the caller gives.
RevalidateBefore(c, path) ==
    item # Nobody /\ Begin("caller", [item.file EXCEPT !.commit = c, !.path = path])

Proceed(pc, signer) ==
    /\ look' = [look EXCEPT !.pc = pc, !.signer = signer]
    /\ cleared' = cleared /\ UNCHANGED <<gitWorld, setting, item, since>>
\* ls-remote answers and the commit is an ancestor of the head it returns; what
\* is an ancestor of a given head does not change any more.
Answers(c) == up /\ c \in reach
AskRemote ==
    /\ look # Nobody /\ look.pc = "remote" /\ Answers(look.file.commit)
    /\ Proceed("signature", Nobody)
\* verify_commit_signature.  authenticate refuses a signer that is not allowed
\* with either setting, revalidate_before_execution only where signatures are required.
VerifySignature ==
    /\ look # Nobody /\ look.pc = "signature"
    /\ look.by # "caller" \/ setting.signed => Signer(look.file.commit) \in allowed
    /\ Proceed("content", Signer(look.file.commit))

\* authenticate at its end: the committed content, the times by the clock that
\* was read first, and the action; AUTHENTIC, though it may wait for a human.
Authentic(f) ==
    /\ Blob(f.commit, f.path) # Missing /\ f.hash \in {Nobody, Blob(f.commit, f.path)}
    /\ f.times = "good" /\ ~ look.late /\ f.action # "prohibited"
\* Mutant of SameSnapshot: the commit of the envelope is taken for the one of the snapshot.
BadSameSnapshot(f) == Blob(f.commit, f.path) = item.hash /\ look.signer = item.signer
\* The committed content, the commit and the signer are those of the ingestion.
SameSnapshot(f) ==
    /\ Blob(f.commit, f.path) = item.hash /\ f.commit = item.file.commit
    /\ look.signer = item.signer

\* The watcher queues the directive; the record keeps the hash of the committed
\* content and the signer, and the payload of the file.
Admit ==
    /\ look # Nobody /\ look.pc = "content" /\ look.by = "watcher" /\ Authentic(look.file)
    /\ item' = [file |-> look.file, hash |-> Blob(look.file.commit, look.file.path),
                signer |-> look.signer, readback |-> TRUE]
    /\ look' = Nobody /\ since' = {} /\ UNCHANGED <<gitWorld, setting, cleared>>
\* A revalidation lets the directive through.  revalidate_before_execution looks
\* at no expiry and no action.
LetThrough ==
    /\ look # Nobody /\ look.pc = "content"
    /\ \/ look.by = "executor" /\ Authentic(look.file) /\ setting.mutating
       \/ look.by = "caller" /\ SameSnapshot(look.file)
    /\ cleared' = [by |-> look.by, commit |-> look.file.commit, held |-> since]
    /\ look' = Nobody /\ since' = {} /\ UNCHANGED <<gitWorld, setting, item>>
\* At any step a check finds something else, or its Git command fails or times out.
RefuseDirective ==
    /\ look # Nobody /\ look' = Nobody /\ since' = {}
    /\ UNCHANGED <<gitWorld, setting, item, cleared>>
\* After a restart the record is the line in the file, which says
\* readback_verified = False; a check under way ends with its process.
Reload ==
    /\ item # Nobody /\ item.readback
    /\ item' = [item EXCEPT !.readback = FALSE] /\ cleared' = Nobody
    /\ \/ look' = Nobody /\ since' = {}
       \/ UNCHANGED <<look, since>>
    /\ UNCHANGED <<gitWorld, setting>>

AuthNext ==
    \/ Push \/ Outage \/ Lapse
    \/ \E c \in Commits : Revoke(c)
    \/ \E k \in Keys : Delist(k)
    \/ \E f \in Inbox : Examine(f)
    \/ Revalidate
    \/ \E c \in Commits, path \in Paths : RevalidateBefore(c, path)
    \/ AskRemote \/ VerifySignature
    \/ Admit \/ LetThrough \/ RefuseDirective \/ Reload
AuthSpec == AuthInit /\ [][AuthNext]_cvars

----------------------------------------------------------------------------
AuthTypeOK ==
    /\ reach \subseteq Commits /\ verifies \subseteq Commits /\ allowed \subseteq Keys
    /\ up \in BOOLEAN /\ late \in BOOLEAN
    /\ item = Nobody \/ item \in Items
    /\ look = Nobody \/
        /\ look.file \in Files /\ look.file.commit \in Commits
        /\ look.pc \in {"remote", "signature", "content"} /\ look.signer \in Keys \cup {Nobody}
        /\ look.by = "watcher" <=> item = Nobody
    /\ since \subseteq Conditions

\* "EXECUTION_ALLOWED = FALSE if any trust condition changes after initial
\* authentication" (executor.py:5), as far as the code goes: a directive that
\* either revalidation lets through is the commit that was ingested, signed by
\* the key it was admitted under, and each trust condition held at some moment
\* since this revalidation began, whatever was pushed, revoked, delisted,
\* renewed or restarted since the ingestion and between two Git commands.  The
\* moments differ: what was asked first may have changed before the end.
LetThroughStillTrusted ==
    cleared # Nobody =>
        /\ cleared.commit = item.file.commit /\ Repo[cleared.commit].key = item.signer
        /\ {"reachable", "verified"} \subseteq cleared.held
        /\ setting.signed \/ cleared.by = "executor" => "listed" \in cleared.held
        /\ cleared.by = "executor" => "timely" \in cleared.held /\ setting.mutating
=============================================================================
