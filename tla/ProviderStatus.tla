---------------------------- MODULE ProviderStatus ----------------------------
(***************************************************************************)
(* The provider status of the read-only workers (provider.py, AF-06): a    *)
(* worker signs what it knows of its provider, the gateway keeps the last  *)
(* accepted word of every worker, and offers work to a session only on a   *)
(* fresh word of that session that its provider is connected.  A worker    *)
(* process ends and starts again with its counter at zero.  Frames are     *)
(* lost, late, repeated or reordered: any that was signed may arrive at    *)
(* any time.  The session a frame is for is looked up before the           *)
(* transaction that stores it, and may be replaced in between.  What       *)
(* sessions the gateway of AF-05 has is for module ExternalGateway: here   *)
(* they are replaced, end and return as they like.                         *)
(***************************************************************************)
EXTENDS Integers, FiniteSets, Clock, FileRecords

CONSTANTS
    Adapters,       \* workers
    BridgeSessions, \* their session ids
    StatusSla,      \* heartbeat_sla of the workers' profiles
    ClockAhead,     \* bound of the model: how far a worker's clock is ahead
    MaxFrames       \* bound of the model: frames signed

ASSUME ProviderAssumption ==
    StatusSla \in Nat /\ ClockAhead \in Nat /\ MaxFrames \in Nat /\ Nobody \notin BridgeSessions

VARIABLES
    adapter,  \* the process of each worker: its session and its provider_sequence
    wire,     \* the frames signed so far
    bridge,   \* the authenticated session of each worker in af05_sessions
    checked,  \* the frame of a call that passed the checks before the transaction
    provider, \* af06_provider_status
    accepted, \* af06_provider_messages
    offered,  \* the offer that was just made, and the word it was made on
    heard     \* history: the latest word accepted of each worker since it last changed sessions

mvars == <<now, adapter, wire, bridge, checked, provider, accepted, offered, heard>>

NotRunning == [session |-> Nobody, sequence |-> 0]
Silence == [worker |-> Nobody, session |-> Nobody, sequence |-> 0, connected |-> FALSE, at |-> 0]
NoOffer == [session |-> Nobody, on |-> Silence, latest |-> 0]
MInit ==
    /\ now = 0 /\ adapter = [w \in Adapters |-> NotRunning] /\ wire = {} /\ checked = Silence
    /\ bridge = [w \in Adapters |-> Nobody] /\ provider = [w \in Adapters |-> Silence]
    /\ accepted = {} /\ offered = NoOffer /\ heard = [w \in Adapters |-> 0]

MTick == Advance /\ offered' = NoOffer /\ UNCHANGED <<adapter, wire, bridge, checked, provider, accepted, heard>>

----------------------------------------------------------------------------
(* OpenAIReadOnlyWorker. *)
StartWorker(w, s) ==
    /\ adapter' = [adapter EXCEPT ![w] = [NotRunning EXCEPT !.session = s]]
    /\ offered' = NoOffer /\ UNCHANGED <<now, wire, bridge, checked, provider, accepted, heard>>
\* PROVIDER_CONNECTED_UNATTESTED after a probe that was answered, and otherwise
\* NOT_CONNECTED or UNAVAILABLE, which the gateway treats alike.
SignStatus(w, connected, ahead) ==
    LET a == adapter[w]
        frame == [worker |-> w, session |-> a.session, sequence |-> a.sequence + 1,
                  connected |-> connected, at |-> now + ahead]
    IN /\ a.session # Nobody /\ Cardinality(wire) < MaxFrames
       /\ wire' = wire \cup {frame}
       /\ adapter' = [adapter EXCEPT ![w].sequence = @ + 1]
       /\ offered' = NoOffer /\ UNCHANGED <<now, bridge, checked, provider, accepted, heard>>

----------------------------------------------------------------------------
(* ProviderBoundGateway. *)

\* AF-05: a worker has one session, and a session is of one worker.
Bridge(w, s) ==
    /\ bridge' = [v \in Adapters |-> IF v = w THEN s ELSE IF bridge[v] = s THEN Nobody ELSE bridge[v]]
    /\ offered' = NoOffer /\ UNCHANGED <<now, adapter, wire, checked, provider, accepted, heard>>

Timed(f) == f.at <= now + 1 /\ now - f.at <= StatusSla
CheckStatus(f) ==
    /\ checked = Silence /\ bridge[f.worker] = f.session /\ Timed(f)
    /\ checked' = f /\ offered' = NoOffer
    /\ UNCHANGED <<now, adapter, wire, bridge, provider, accepted, heard>>
\* The worker names a message after (the beginning of) its session and its counter.
MessageId(f) == <<f.session, f.sequence>>
\* Fault: only the message id is looked up.
BadIsReplay(f) == MessageId(f) \in accepted
IsReplay(f) ==
    \/ provider[f.worker].session = f.session /\ f.sequence <= provider[f.worker].sequence
    \/ MessageId(f) \in accepted
\* The transaction, or a call that dies before it.
StoreStatus(commits) ==
    LET f == checked
        current == IF provider[f.worker].session = f.session THEN heard[f.worker] ELSE 0
    IN /\ f # Silence /\ checked' = Silence
       /\ IF ~ commits \/ IsReplay(f) THEN UNCHANGED <<provider, accepted, heard>>
          ELSE /\ provider' = [provider EXCEPT ![f.worker] = f]
               /\ accepted' = accepted \cup {MessageId(f)}
               /\ heard' = [heard EXCEPT ![f.worker] =
                      IF f.sequence > current THEN f.sequence ELSE current]
       /\ offered' = NoOffer /\ UNCHANGED <<now, adapter, wire, bridge>>

\* eligible_sessions: s is the session that AF-05 has just listed for w.
EligibleFor(w, s) ==
    provider[w].session = s /\ provider[w].connected /\ Timed(provider[w])
Offer(w) ==
    /\ bridge[w] # Nobody /\ EligibleFor(w, bridge[w])
    /\ offered' = [session |-> bridge[w], on |-> provider[w], latest |-> heard[w]]
    /\ UNCHANGED <<now, adapter, wire, bridge, checked, provider, accepted, heard>>

MNext ==
    \/ MTick
    \/ \E w \in Adapters :
        \/ \E s \in BridgeSessions : StartWorker(w, s)
        \/ \E connected \in BOOLEAN, ahead \in 0 .. ClockAhead : SignStatus(w, connected, ahead)
        \/ \E s \in BridgeSessions \cup {Nobody} : Bridge(w, s)
        \/ Offer(w)
    \/ \E f \in wire : CheckStatus(f)
    \/ \E commits \in BOOLEAN : StoreStatus(commits)
MSpec == MInit /\ [][MNext]_mvars

----------------------------------------------------------------------------
MTypeOK ==
    /\ now \in 0 .. MaxTime /\ checked \in wire \cup {Silence} /\ Cardinality(wire) <= MaxFrames
    /\ \A f \in wire :
        f.worker \in Adapters /\ f.session \in BridgeSessions
    /\ bridge \in [Adapters -> BridgeSessions \cup {Nobody}]
    /\ \A w \in Adapters : provider[w] \in wire \cup {Silence}

\* Work is offered to a session only on what that session's own worker signed,
\* within the SLA, of a connected provider; and nothing later that was accepted
\* of the session said otherwise, whatever frames were overtaken, whichever
\* sessions came between the check and the store, and though a worker that was
\* started again counts from one.
OfferedOnLatestWord ==
    offered # NoOffer =>
        /\ offered.on \in wire /\ offered.on.session = offered.session
        /\ offered.on.connected
        /\ now - offered.on.at <= StatusSla /\ offered.on.sequence = offered.latest
=============================================================================
