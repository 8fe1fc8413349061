---------------------------- MODULE LocalSessions ----------------------------
(***************************************************************************)
(* The sessions of the local worker gateway (gateway.py, AF-02): who       *)
(* speaks for a worker, and when it was last heard.  They are held in      *)
(* memory under one lock and lost with the process; the worker's row in    *)
(* the store is written in the same call, before the memory.  Each message *)
(* carries the time its worker observed, and each call a clock that was    *)
(* sampled before it got the lock.  (Module Execution has the dispatches.) *)
(***************************************************************************)
EXTENDS Integers, Clock, FileRecords

CONSTANTS
    Harnesses,       \* workers with a local profile
    HarnessSessions, \* session ids, which the workers choose
    HarnessSla,      \* heartbeat_sla
    SampleLag,       \* bound of the model: how old a sampled clock can be
    MaxSequence      \* bound of the model: heartbeat sequence numbers

ASSUME LocalSessionsAssumption ==
    /\ HarnessSla \in Nat \ {0} /\ SampleLag \in Nat /\ MaxSequence \in Nat
    /\ Nobody \notin HarnessSessions

VARIABLES
    harness, \* _sessions of the gateway
    beat     \* workers.last_heartbeat in the store

svars == <<now, harness, beat>>

Unknown == [id |-> Nobody, sequence |-> 0, observed |-> 0]
SInit ==
    /\ now = 0 /\ harness = [w \in Harnesses |-> Unknown] /\ beat = [w \in Harnesses |-> 0]

Samples == {n \in 0 .. now : now - n <= SampleLag}
\* Neither more than a second in the future nor older than the SLA.
Timely(n, o) == o <= n + 1 /\ n - o <= HarnessSla

\* The store is written first; when it is busy the call ends there.
Hear(w, s, q, o) ==
    /\ harness' = [harness EXCEPT ![w] = [id |-> s, sequence |-> q, observed |-> o]]
    /\ beat' = [beat EXCEPT ![w] = o]
    /\ UNCHANGED now

\* Fault: a session that is exactly as old as the SLA may be replaced.
BadMayReplace(n, current, s) ==
    current.id = Nobody \/ (current.id # s /\ n - current.observed >= HarnessSla)
\* A session id that speaks for the worker already is a replay.
MayReplace(n, current, s) ==
    current.id = Nobody \/ (current.id # s /\ n - current.observed > HarnessSla)
RegisterHarness(w, s, q, o, n) ==
    Timely(n, o) /\ MayReplace(n, harness[w], s) /\ Hear(w, s, q, o)
HarnessBeat(w, s, q, o, n) ==
    /\ harness[w].id = s /\ q > harness[w].sequence /\ o > harness[w].observed /\ Timely(n, o)
    /\ Hear(w, s, q, o)
\* A new process over the same store: no worker has a session.
RestartGateway ==
    /\ \E w \in Harnesses : harness[w] # Unknown
    /\ harness' = [w \in Harnesses |-> Unknown] /\ UNCHANGED <<now, beat>>
STick == Advance /\ UNCHANGED <<harness, beat>>

\* verified_session_binding, by which AF-03 grants and applies.
BoundTo(w, s, n) == harness[w].id = s /\ Timely(n, harness[w].observed)

SNext ==
    \/ STick \/ RestartGateway
    \/ \E w \in Harnesses, s \in HarnessSessions, q \in 0 .. MaxSequence, o \in 0 .. now + 1,
          n \in Samples : RegisterHarness(w, s, q, o, n) \/ HarnessBeat(w, s, q, o, n)
SSpec == SInit /\ [][SNext]_svars

----------------------------------------------------------------------------
STypeOK ==
    /\ now \in 0 .. MaxTime /\ beat \in [Harnesses -> 0 .. MaxTime + 1]
    /\ harness \in [Harnesses -> [id : HarnessSessions \cup {Nobody}, sequence : 0 .. MaxSequence,
                                  observed : 0 .. MaxTime + 1]]

\* While its gateway lives a worker is only ever heard later than before, in
\* memory and in the store: across heartbeats, replaced sessions, sessions that
\* come back, clocks that are sampled late and observations from the future.
\* So no observation counts twice and no delayed one makes a stale worker fresh.
HeardForward ==
    [][\A w \in Harnesses :
        (harness[w].id # Nobody /\ harness'[w].id # Nobody /\ harness'[w] # harness[w])
            => harness'[w].observed > harness[w].observed /\ beat'[w] > beat[w]]_svars
=============================================================================
