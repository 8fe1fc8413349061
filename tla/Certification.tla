----------------------------- MODULE Certification -----------------------------
(***************************************************************************)
(* The derivation of a certificate (github_governance_truth.py): the       *)
(* remote governance snapshot is parsed, the worktree, the reviews and     *)
(* twice the head of the trusted branch are read, one after the other,     *)
(* while commits may be published, and BLOCK 1C, CONTROL-03 and CONTROL-04 *)
(* are concluded from what was read.  Files and the worktree can change    *)
(* between any two reads, so each read takes any value; the head only      *)
(* moves forward, since a certificate needs the evidence that force pushes *)
(* are blocked.                                                            *)
(***************************************************************************)
EXTENDS Integers, FileRecords

CONSTANTS
    Old,       \* commits in the branch before the certification starts: 1 .. Old
    MaxHead,   \* bound of the model: the last commit that is published
    Stray,     \* a commit that is not on the trusted branch
    Tree,      \* the tree of a commit without reports/ and state/
    Signed,    \* commits whose signature GitHub reports as valid and authorized
    Snapshots, \* governance snapshots that may be found
    Asked      \* code_under_test_sha and test_evidence_sha as callers give them

Heads == Old .. MaxHead
History == (1 .. MaxHead) \cup {Stray}
Rules == {"pr", "checks", "force_push", "deletion", "direct_push", "admin"}
\* The snapshot file: why it is not read, or what is in it.
Unread == {"missing", "empty", "unstamped", "stale", "malformed"}
SnapshotFiles ==
    [file : Unread \cup {"read"},
     api : BOOLEAN, auth : BOOLEAN, pr : BOOLEAN, ci : BOOLEAN, merged : BOOLEAN,
     protection : (SUBSET Rules) \cup {Nobody}, override : (SUBSET Rules) \cup {Nobody}]

ASSUME CertificationAssumption ==
    /\ Old \in Nat \ {0} /\ MaxHead \in Nat /\ Old <= MaxHead /\ Stray \notin 1 .. MaxHead
    /\ Tree \in [History -> Nat] /\ Signed \subseteq History
    /\ Snapshots \subseteq SnapshotFiles
    /\ Asked \subseteq [code : History \cup {Nobody}, evidence : History \cup {Nobody}]
    /\ Nobody # "PASS"

VARIABLES
    head,     \* what git rev-parse origin/main answers
    call,     \* the derivation under way: its arguments and what it has read
    findings, \* what it has concluded so far
    result    \* the status it returned, "raised", or Nobody

dvars == <<head, call, findings, result>>

NoDerivation == [pc |-> "idle"]
Nothing == [governance |-> FALSE, clean |-> FALSE, reviewed |-> FALSE, certified |-> FALSE]
DInit == head = Old /\ call = NoDerivation /\ findings = Nothing /\ result = Nobody

----------------------------------------------------------------------------
(* parse_github_governance_evidence *)

\* The rules of main: an override in the snapshot replaces the protection.
\* A protection that is there at all counts for "pr" and "direct_push".
RulesOf(s) ==
    IF s.override # Nobody THEN s.override
    ELSE IF s.protection # Nobody THEN s.protection \cup {"pr", "direct_push"} ELSE {}
EvidenceValid(s) == s.override # Nobody \/ (s.protection # Nobody /\ s.api)
MainProtected(s) == EvidenceValid(s) /\ RulesOf(s) = Rules
GovernanceStatus(s) ==
    IF s.file \in Unread THEN "FAIL"
    ELSE IF s.pr /\ s.ci /\ s.auth /\ s.api /\ MainProtected(s) /\ s.merged
         THEN "PASS" ELSE "WAITING_HUMAN"

----------------------------------------------------------------------------
(* derive_block_2_10r_1c *)

\* The head moves on: a commit is published and fetched.
PublishCommit == head < MaxHead /\ head' = head + 1 /\ UNCHANGED <<call, findings, result>>

\* pre is a head the caller has read before, data the verification of such a
\* head that it has queried; CONTROL-04 cannot pass data on.
Derive(block, asked, pre, data) ==
    /\ call = NoDerivation /\ (block = "04" => data = Nobody)
    /\ call' = [pc |-> "base", block |-> block, code |-> asked.code, evidence |-> asked.evidence,
                pre |-> pre, data |-> data, final |-> Nobody, post |-> Nobody,
                failed |-> FALSE, there |-> Nobody]
    /\ UNCHANGED <<head, findings, result>>
\* The snapshot, git status and the two review files.
ReadBase(s, clean, reviewed) ==
    /\ call.pc = "base" /\ call' = [call EXCEPT !.pc = "final"]
    /\ findings' = [findings EXCEPT !.governance = GovernanceStatus(s) = "PASS",
                                    !.clean = clean, !.reviewed = reviewed]
    /\ UNCHANGED <<head, result>>
\* git rev-parse origin/main; whatever fails leaves UNKNOWN (Nobody).
ReadFinal(answer) ==
    /\ call.pc = "final" /\ answer \in {head, Nobody}
    /\ call' = [call EXCEPT !.pc = "post", !.final = answer]
    /\ UNCHANGED <<head, findings, result>>
\* The second time: an exit code leaves UNKNOWN, an exception stands for the
\* answer of the first time (failed).  (there is history: what the head is meanwhile.)
ReadPost(answer, failed) ==
    /\ call.pc = "post" /\ answer \in IF failed THEN {call.final} ELSE {head, Nobody}
    /\ call' = [call EXCEPT !.pc = "conclude", !.post = answer, !.failed = failed, !.there = head]
    /\ UNCHANGED <<head, findings, result>>

\* pre_certification_remote_head_sha, by default what the first read returned.
Pre == IF call.pre # Nobody THEN call.pre ELSE call.final
Given == call.code # Nobody /\ call.evidence # Nobody
\* Mutant of Unchanged: the second read is not compared.
BadUnchanged(pre, final, post) == pre # Nobody /\ pre = final
Unchanged(pre, final, post) == pre # Nobody /\ post # Nobody /\ pre = post
NotSelfReferential == Given /\ call.code # call.evidence /\ call.evidence # call.final
Ancestor(c, d) == c # Stray /\ c <= d
\* The commit whose signature is looked at: the one the caller's data is about.
Shown == IF call.data # Nobody THEN call.data ELSE call.final

\* The conjuncts of c1_pass before the key test_evidence_commit_only is read.
FirstHalf == findings.governance /\ findings.clean /\ NotSelfReferential
SecondHalf(faults) ==
    /\ Tree[call.code] = Tree[call.evidence]
    /\ call.final # Nobody /\ "final_diff" \notin faults /\ Tree[call.code] = Tree[call.final]
    /\ Shown \in Signed /\ (call.data # Nobody \/ "gh" \notin faults)
    /\ Unchanged(Pre, call.final, call.post) /\ findings.reviewed
    /\ "ancestry" \notin faults
    /\ Ancestor(call.code, call.final) /\ Ancestor(call.evidence, call.final)
\* The commands that fail: the two diffs, the ancestry, the query of the signature.
CommandFaults == SUBSET {"diff", "final_diff", "ancestry", "gh"}
\* Without the first diff a key of the result is missing: the rule raises KeyError.
BlockStatus(faults) ==
    IF ~ FirstHalf THEN "FAIL"
    ELSE IF "diff" \in faults THEN "raised"
    ELSE IF SecondHalf(faults) THEN "PASS" ELSE "FAIL"

Return(status) == result' = status /\ call' = [call EXCEPT !.pc = "idle"]
\* The caller has the answer, and may ask again.
Answered ==
    /\ call # NoDerivation /\ call.pc = "idle"
    /\ call' = NoDerivation /\ findings' = Nothing /\ result' = Nobody /\ UNCHANGED head
GoOnWith(pc) == call' = [call EXCEPT !.pc = pc] /\ UNCHANGED result
Conclude1C(faults) ==
    /\ call.pc = "conclude"
    /\ LET status == BlockStatus(faults)
       IN /\ findings' = [findings EXCEPT !.certified = status = "PASS"]
          /\ IF status = "raised" \/ call.block = "1c" THEN Return(status) ELSE GoOnWith("03")
    /\ UNCHANGED head

----------------------------------------------------------------------------
(* derive_control_03 and derive_control_04 read the same review files again,
   and each wants another block named in them. *)

\* Every other conjunct of c3_pass is one of c1_pass, of the same findings.
Conclude03(implemented, reviewed) ==
    /\ call.pc = "03"
    /\ LET status == IF findings.certified /\ implemented /\ reviewed THEN "PASS"
                     ELSE IF findings.certified THEN "FAIL" ELSE "CORRECTION_REQUIRED"
       IN /\ findings' = [findings EXCEPT !.certified = status = "PASS"]
          /\ IF call.block = "03" THEN Return(status) ELSE GoOnWith("04")
    /\ UNCHANGED head
\* With both a code commit and a pre head is_commit_ancestor is called, which is
\* defined nowhere: NameError.  Otherwise the code counts as unreachable.  So
\* nothing that the files and the attack ledger say makes it PASS.
Conclude04 ==
    /\ call.pc = "04"
    /\ Return(IF call.code # Nobody /\ call.pre # Nobody THEN "raised" ELSE "CORRECTION_REQUIRED")
    /\ UNCHANGED <<head, findings>>

DNext ==
    \/ PublishCommit \/ Conclude04 \/ Answered
    \/ \E answer \in Heads \cup {Nobody} :
        ReadFinal(answer) \/ \E failed \in BOOLEAN : ReadPost(answer, failed)
    \/ \E block \in {"1c", "03", "04"}, asked \in Asked,
          pre \in (Old .. head) \cup {Nobody}, data \in (Old .. head) \cup {Nobody} :
           Derive(block, asked, pre, data)
    \/ \E s \in Snapshots, clean \in BOOLEAN, reviewed \in BOOLEAN : ReadBase(s, clean, reviewed)
    \/ \E faults \in CommandFaults : Conclude1C(faults)
    \/ \E implemented \in BOOLEAN, reviewed \in BOOLEAN : Conclude03(implemented, reviewed)
DSpec == DInit /\ [][DNext]_dvars

----------------------------------------------------------------------------
DTypeOK ==
    /\ head \in Heads
    /\ call = NoDerivation \/
        /\ call.pc \in {"idle", "base", "final", "post", "conclude", "03", "04"}
        /\ {call.pre, call.data, call.final, call.post, call.there} \subseteq Heads \cup {Nobody}
    /\ findings \in [governance : BOOLEAN, clean : BOOLEAN, reviewed : BOOLEAN, certified : BOOLEAN]
    /\ result \in {"PASS", "FAIL", "CORRECTION_REQUIRED", "raised", Nobody}

\* "pre/post remote HEAD freshness" (github_governance_truth.py:541), as far as
\* the code goes: a certificate that is granted is about one head, which the
\* branch had when it was read first and, unless the second read raised, still
\* had at the second; its tree is the tree of the code and of the evidence, it
\* contains both, and it is signed; though commits are published in between and
\* any command fails.  If the caller hands in the verification data of a
\* commit, it has to be the pre head it hands in: nothing compares the two.
CertificateNamesOneHead ==
    (result = "PASS" /\ call.data \in {Nobody, call.pre}) =>
        /\ call.final = Pre /\ call.final \in Signed
        /\ ~ call.failed => call.there = call.final
        /\ Tree[call.final] = Tree[call.code] /\ Tree[call.final] = Tree[call.evidence]
        /\ call.code <= call.final /\ call.evidence < call.final
=============================================================================
