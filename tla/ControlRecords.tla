--------------------------- MODULE ControlRecords ---------------------------
(***************************************************************************)
(* The parts of the control plane that keep their state in files or memory *)
(* of their own, or judge what others wrote.  They share no state but the  *)
(* clock, so one behaviour explores one of them (focus) while the others   *)
(* stay in their initial states.                                           *)
(***************************************************************************)
EXTENDS Killswitch, ControllerLease, ObserverEngine, Recovery, Approvals, QueueRecords,
        Authentication, Certification, ProjectStatus, LocalSessions, ProviderStatus

VARIABLE focus

\* What each focus keeps; the components with a clock share it.
OfKillswitch == kvars
OfLease == <<lease, asking, told, raced>>
OfObserver == evars
OfRecovery == <<checkpoint, chain, engine, granted, continued, calls>>
OfApprovals == <<approvalsFile, held, io, work, created, signed, spent, executed>>
OfQueue == qvars
OfVerdicts == <<cvars, dvars, pvars>>
OfSessions == <<harness, beat>>
OfProvider == <<adapter, wire, bridge, checked, provider, accepted, offered, heard>>
OfWorkers == <<OfSessions, OfProvider>>
Others == <<OfVerdicts, OfWorkers>>
vars ==
    <<now, OfKillswitch, OfLease, OfObserver, OfRecovery, OfApprovals, OfQueue, OfVerdicts,
      OfWorkers, focus>>
Foci ==
    {"killswitch", "lease", "observer", "recovery", "approvals", "queue",
     "authentication", "certification", "status", "sessions", "provider"}

Init ==
    /\ focus \in Foci
    /\ KInit /\ LInit /\ EInit /\ RInit /\ AInit /\ QInit /\ DInit /\ SInit /\ MInit
    \* What only its own focus looks at is not varied for the others.
    /\ IF focus = "authentication" THEN AuthInit
       ELSE WorldInit /\ NothingAsked /\ setting = [signed |-> TRUE, mutating |-> FALSE]
    /\ IF focus = "status" THEN PInit
       ELSE subject = [oracle |-> FALSE, expected |-> TRUE] /\ seen = NotSeen /\ status = Nobody

FileBacked == <<OfKillswitch, OfLease, OfObserver, OfRecovery, OfApprovals, OfQueue>>
Next ==
    \/ /\ focus = "killswitch" /\ KNext
       /\ UNCHANGED <<now, OfLease, OfObserver, OfRecovery, OfApprovals, OfQueue, Others, focus>>
    \/ /\ focus = "lease" /\ LNext
       /\ UNCHANGED <<OfKillswitch, OfObserver, OfRecovery, OfApprovals, OfQueue, Others, focus>>
    \/ /\ focus = "observer" /\ ENext
       /\ UNCHANGED <<now, OfKillswitch, OfLease, OfRecovery, OfApprovals, OfQueue, Others, focus>>
    \/ /\ focus = "recovery" /\ RNext
       /\ UNCHANGED <<OfKillswitch, OfLease, OfObserver, OfApprovals, OfQueue, Others, focus>>
    \/ /\ focus = "approvals" /\ ANext
       /\ UNCHANGED <<OfKillswitch, OfLease, OfObserver, OfRecovery, OfQueue, Others, focus>>
    \/ /\ focus = "queue" /\ QNext
       /\ UNCHANGED <<now, OfKillswitch, OfLease, OfObserver, OfRecovery, OfApprovals, Others, focus>>
    \/ /\ focus = "authentication" /\ AuthNext
       /\ UNCHANGED <<now, FileBacked, dvars, pvars, OfWorkers, focus>>
    \/ /\ focus = "certification" /\ DNext
       /\ UNCHANGED <<now, FileBacked, cvars, pvars, OfWorkers, focus>>
    \/ /\ focus = "status" /\ PNext
       /\ UNCHANGED <<now, FileBacked, cvars, dvars, OfWorkers, focus>>
    \/ /\ focus = "sessions" /\ SNext
       /\ UNCHANGED <<FileBacked, OfVerdicts, OfProvider, focus>>
    \/ /\ focus = "provider" /\ MNext
       /\ UNCHANGED <<FileBacked, OfVerdicts, OfSessions, focus>>
Spec == Init /\ [][Next]_vars

\* Every component keeps what it keeps: the state files, records and histories
\* of all of them, and what a call has in hand between two steps, have the
\* shapes that the handlers rely on, whatever fails or is killed.
RecordsTyped ==
    /\ KTypeOK /\ LTypeOK /\ ETypeOK /\ RTypeOK /\ ATypeOK /\ QTypeOK /\ AuthTypeOK /\ DTypeOK /\ PTypeOK
    /\ STypeOK /\ MTypeOK
=============================================================================
