--------------------------- MODULE ControllerLease ---------------------------
(***************************************************************************)
(* The lease of the active controller (watchdog.py): one file that every   *)
(* controller reads, finds free, truncates and writes, in separate steps   *)
(* and without a lock.                                                     *)
(***************************************************************************)
EXTENDS Integers, Clock, FileRecords

CONSTANTS
    Controllers,
    LeaseTtl \* lease_ttl

ASSUME LeaseAssumption == LeaseTtl \in Nat \ {0} /\ Nobody \notin Controllers

VARIABLES
    lease,  \* the lease file; Nobody owns one that is missing or does not parse
    asking, \* where acquire_or_renew_lease of each controller is
    told,   \* until when each controller was last told it has the lease
    raced   \* history: whose lease was written, or stands, under another's pending write

lvars == <<now, lease, asking, told, raced>>

NotCalling == [pc |-> "idle", t |-> 0]
NoLease == [owner |-> Nobody, expires |-> 0]
LInit ==
    /\ now = 0 /\ lease = NoLease /\ raced = {}
    /\ asking = [c \in Controllers |-> NotCalling] /\ told = [c \in Controllers |-> 0]

\* is_lease_owner: the file is read again.
IsOwner(c) == lease.owner = c /\ now < lease.expires
Believes(c) == now < told[c]

\* Mutant of FreeFor: anyone may renew a lease that has not expired yet.
BadFreeFor(c) == TRUE
\* A file that does not parse counts as free.
FreeFor(c) == lease.owner = c \/ now >= lease.expires
\* The check, with the clock sampled before it.
Check(c) ==
    /\ asking[c].pc = "idle" /\ FreeFor(c)
    /\ asking' = [asking EXCEPT ![c] = [pc |-> "open", t |-> now]]
    /\ UNCHANGED <<now, lease, told, raced>>
\* SPLIT_BRAIN_DETECTED_AND_BLOCKED; what the controller was told before stands.
Denied(c) == asking[c].pc = "idle" /\ ~ FreeFor(c) /\ UNCHANGED lvars
TruncateLease(c) ==
    /\ asking[c].pc = "open"
    /\ asking' = [asking EXCEPT ![c].pc = "write"] /\ lease' = NoLease
    /\ UNCHANGED <<now, told, raced>>
\* The lease runs from the sample, not from the write.
WriteLease(c) ==
    /\ asking[c].pc = "write"
    /\ lease' = [owner |-> c, expires |-> asking[c].t + LeaseTtl]
    /\ told' = [told EXCEPT ![c] = asking[c].t + LeaseTtl]
    /\ asking' = [asking EXCEPT ![c] = NotCalling]
    /\ raced' = IF \E d \in Controllers \ {c} : asking[d].pc # "idle"
                THEN raced \cup {c} ELSE raced \ {c}
    /\ UNCHANGED now
Die(c) ==
    /\ asking[c].pc # "idle" \/ Believes(c)
    /\ asking' = [asking EXCEPT ![c] = NotCalling] /\ told' = [told EXCEPT ![c] = 0]
    /\ UNCHANGED <<now, lease, raced>>
LTick == Advance /\ UNCHANGED <<lease, asking, told, raced>>

LNext ==
    LTick \/ \E c \in Controllers :
        Check(c) \/ Denied(c) \/ TruncateLease(c) \/ WriteLease(c) \/ Die(c)
LSpec == LInit /\ [][LNext]_lvars

----------------------------------------------------------------------------
LTypeOK ==
    /\ now \in 0 .. MaxTime
    /\ lease \in [owner : Controllers \cup {Nobody}, expires : 0 .. MaxTime + LeaseTtl]
    /\ \A c \in Controllers : asking[c].pc \in {"idle", "open", "write"}
    /\ told \in [Controllers -> 0 .. MaxTime + LeaseTtl] /\ raced \subseteq Controllers

\* What is left of "Enforces Single Active Controller Lease Ownership"
\* (watchdog.py:270): a controller that was told it holds the lease is passed
\* over before the end of its term only by a call that was already past its
\* check when the lease was written.  Without such a race there is no split
\* brain, whatever expires, is renewed late or dies with the file truncated.
SplitOnlyByRace ==
    \A c \in Controllers : (Believes(c) /\ ~ IsOwner(c)) => (c \in raced \/ asking[c].pc # "idle")
=============================================================================
