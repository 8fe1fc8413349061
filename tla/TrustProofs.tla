----------------------------- MODULE TrustProofs -----------------------------
(***************************************************************************)
(* Theorems about what is taken for current and trusted: the sessions of   *)
(* the local gateway (gateway.py), the provider status (provider.py), the  *)
(* authentication of directives (authenticator.py, executor.py) and the    *)
(* status of a project (evaluator.py), for all values of the constants.    *)
(***************************************************************************)
EXTENDS LocalSessions, ProviderStatus, Authentication, ProjectStatus, FiniteSetTheorems, TLAPS

(***************************************************************************)
(* Local sessions.  What the gateway remembers of a worker that has a      *)
(* session is what the store says of it, so a message that is later than   *)
(* the one moves both forward.                                             *)
(***************************************************************************)
SessionsTyped ==
    /\ now \in Nat /\ beat \in [Harnesses -> Nat] /\ DOMAIN harness = Harnesses
    /\ \A w \in Harnesses : harness[w].observed \in Nat
MemoryIsStore == \A w \in Harnesses : harness[w].id # Nobody => beat[w] = harness[w].observed
SessionsInv == SessionsTyped /\ MemoryIsStore

\* Every message that is heard, of whatever session, is later than the last one
\* its worker sent: a heartbeat by its own check, a new session since the old
\* one is beyond the SLA by a clock by which the new one is within it.
LEMMA OnlyLaterIsHeard ==
    ASSUME SessionsInv, NEW w \in Harnesses, NEW s \in HarnessSessions,
           NEW q \in 0 .. MaxSequence, NEW o \in 0 .. now + 1, NEW n \in Samples,
           RegisterHarness(w, s, q, o, n) \/ HarnessBeat(w, s, q, o, n)
    PROVE  /\ Hear(w, s, q, o) /\ o \in Nat
           /\ harness[w].id # Nobody => o > harness[w].observed
<1>1. n \in Nat /\ o \in Nat /\ HarnessSla \in Nat /\ harness[w].observed \in Nat
  BY LocalSessionsAssumption DEF Samples, SessionsInv, SessionsTyped
<1>2. CASE RegisterHarness(w, s, q, o, n)
  BY <1>1, <1>2 DEF RegisterHarness, MayReplace, Timely
<1>3. CASE HarnessBeat(w, s, q, o, n)
  BY <1>1, <1>3 DEF HarnessBeat
<1> QED
  BY <1>2, <1>3

LEMMA SessionsInvHolds == SSpec => []SessionsInv
<1>1. SInit => SessionsInv
  BY DEF SInit, SessionsInv, SessionsTyped, MemoryIsStore, Unknown
<1>2. SessionsInv /\ [SNext]_svars => SessionsInv'
  <2> SUFFICES ASSUME SessionsInv, [SNext]_svars PROVE SessionsInv'
    OBVIOUS
  <2> USE DEF SessionsInv, SessionsTyped, MemoryIsStore
  <2>1. CASE UNCHANGED svars
    BY <2>1 DEF svars
  <2>2. CASE STick
    BY <2>2 DEF STick, Advance
  <2>3. CASE RestartGateway
    BY <2>3 DEF RestartGateway, Unknown
  <2>4. ASSUME NEW w \in Harnesses, NEW s \in HarnessSessions, NEW q \in 0 .. MaxSequence,
               NEW o \in 0 .. now + 1, NEW n \in Samples,
               RegisterHarness(w, s, q, o, n) \/ HarnessBeat(w, s, q, o, n)
        PROVE  SessionsInv'
    <3>1. Hear(w, s, q, o) /\ o \in Nat
      BY <2>4, OnlyLaterIsHeard
    <3> QED
      BY <3>1 DEF Hear
  <2> QED
    BY <2>1, <2>2, <2>3, <2>4 DEF SNext
<1> QED
  BY <1>1, <1>2, PTL DEF SSpec

\* While its gateway lives, a worker's last heartbeat only moves forward, in the
\* memory of the gateway and in the store (register_local_harness, heartbeat):
\* for any SLA and any delay of the sampled clock.
THEOREM WorkersAreHeardForward == SSpec => HeardForward
<1>1. SessionsInv /\ [SNext]_svars =>
        [\A w \in Harnesses :
            (harness[w].id # Nobody /\ harness'[w].id # Nobody /\ harness'[w] # harness[w])
                => harness'[w].observed > harness[w].observed /\ beat'[w] > beat[w]]_svars
  <2> SUFFICES ASSUME SessionsInv, SNext, NEW w \in Harnesses,
                      harness[w].id # Nobody, harness'[w].id # Nobody, harness'[w] # harness[w]
               PROVE  harness'[w].observed > harness[w].observed /\ beat'[w] > beat[w]
    OBVIOUS
  <2>1. ~ STick /\ ~ RestartGateway
    BY DEF STick, RestartGateway, Unknown
  <2>2. PICK v \in Harnesses, s \in HarnessSessions, q \in 0 .. MaxSequence,
             o \in 0 .. now + 1, n \in Samples :
                RegisterHarness(v, s, q, o, n) \/ HarnessBeat(v, s, q, o, n)
    BY <2>1 DEF SNext
  <2>3. Hear(v, s, q, o) /\ o \in Nat /\ (harness[v].id # Nobody => o > harness[v].observed)
    BY <2>2, OnlyLaterIsHeard
  <2>4. v = w
    BY <2>3 DEF Hear, SessionsInv, SessionsTyped
  <2>5. harness'[w].observed = o /\ beat'[w] = o
    BY <2>3, <2>4 DEF Hear, SessionsInv, SessionsTyped
  <2>6. beat[w] = harness[w].observed
    BY DEF SessionsInv, MemoryIsStore
  <2> QED
    BY <2>3, <2>4, <2>5, <2>6
<1> QED
  BY <1>1, SessionsInvHolds, PTL DEF SSpec, HeardForward

\* Whatever gateway.py remembers of a worker, and the store with it, is of a
\* time at most a second ahead of the clock, whichever session spoke.
THEOREM SessionTypes == SSpec => []STypeOK
<1> USE ClockAssumption, LocalSessionsAssumption
<1>1. SInit => STypeOK
  BY DEF SInit, STypeOK, Unknown
<1>2. STypeOK /\ [SNext]_svars => STypeOK'
  <2> SUFFICES ASSUME STypeOK, [SNext]_svars PROVE STypeOK'
    OBVIOUS
  <2>1. CASE UNCHANGED svars
    BY <2>1 DEF svars, STypeOK
  <2>2. CASE STick
    BY <2>2 DEF STick, Advance, STypeOK
  <2>3. CASE RestartGateway
    BY <2>3 DEF RestartGateway, Unknown, STypeOK
  <2>4. ASSUME NEW w \in Harnesses, NEW s \in HarnessSessions, NEW q \in 0 .. MaxSequence,
               NEW o \in 0 .. now + 1, Hear(w, s, q, o)
        PROVE  STypeOK'
    <3>1. o \in 0 .. MaxTime + 1
      BY DEF STypeOK
    <3> QED
      BY <2>4, <3>1 DEF Hear, STypeOK
  <2> QED
    BY <2>1, <2>2, <2>3, <2>4 DEF SNext, RegisterHarness, HarnessBeat
<1> QED
  BY <1>1, <1>2, PTL DEF SSpec

(***************************************************************************)
(* Provider status.  The row of a worker holds the latest word heard of    *)
(* its session, because the transaction compares the counter again, after  *)
(* the checks; and an offer is made from that row in one step.             *)
(***************************************************************************)
FrameTyped(f) ==
    f.worker \in Adapters /\ f.session \in BridgeSessions /\ f.sequence \in Nat \ {0} /\ f.at \in Nat
FramesTyped ==
    /\ now \in Nat /\ DOMAIN adapter = Adapters
    /\ \A w \in Adapters :
        adapter[w].session \in BridgeSessions \cup {Nobody} /\ adapter[w].sequence \in Nat
    /\ \A f \in wire : FrameTyped(f)
    /\ checked \in wire \cup {Silence} /\ provider \in [Adapters -> wire \cup {Silence}]
RowIsLatest == heard \in [Adapters -> Nat] /\ \A w \in Adapters : heard[w] = provider[w].sequence
StatusInv == FramesTyped /\ RowIsLatest /\ OfferedOnLatestWord

LEMMA StatusInvHolds == MSpec => []StatusInv
<1>1. MInit => StatusInv
  BY DEF MInit, StatusInv, FramesTyped, RowIsLatest, OfferedOnLatestWord, NotRunning, Silence
<1>2. StatusInv /\ [MNext]_mvars => StatusInv'
  <2> SUFFICES ASSUME StatusInv, [MNext]_mvars PROVE StatusInv'
    OBVIOUS
  <2> USE DEF StatusInv, FramesTyped, FrameTyped, RowIsLatest, OfferedOnLatestWord
  <2>1. CASE UNCHANGED mvars
    BY <2>1 DEF mvars
  <2>2. CASE MTick
    BY <2>2 DEF MTick, Advance
  <2>3. ASSUME NEW w \in Adapters, NEW s \in BridgeSessions, StartWorker(w, s) PROVE StatusInv'
    BY <2>3 DEF StartWorker, NotRunning
  <2>4. ASSUME NEW w \in Adapters, NEW connected \in BOOLEAN, NEW ahead \in 0 .. ClockAhead,
               SignStatus(w, connected, ahead)
        PROVE  StatusInv'
    <3> DEFINE frame == [worker |-> w, session |-> adapter[w].session,
                         sequence |-> adapter[w].sequence + 1,
                         connected |-> connected, at |-> now + ahead]
    <3>1. FrameTyped(frame)
      BY <2>4, ProviderAssumption DEF SignStatus
    <3>2. wire' = wire \cup {frame} /\ DOMAIN adapter' = Adapters
          /\ adapter' = [adapter EXCEPT ![w].sequence = @ + 1]
      BY <2>4 DEF SignStatus
    <3> HIDE DEF frame
    <3> QED
      BY <2>4, <3>1, <3>2 DEF SignStatus
  <2>5. ASSUME NEW w \in Adapters, NEW s \in BridgeSessions \cup {Nobody}, Bridge(w, s)
        PROVE  StatusInv'
    BY <2>5 DEF Bridge
  <2>6. ASSUME NEW w \in Adapters, Offer(w) PROVE StatusInv'
    <3>1. provider[w] \in wire /\ provider[w].session = bridge[w]
      BY <2>6 DEF Offer, EligibleFor, Silence
    <3> QED
      BY <2>6, <3>1 DEF Offer, EligibleFor, Timed
  <2>7. ASSUME NEW f \in wire, CheckStatus(f) PROVE StatusInv'
    BY <2>7 DEF CheckStatus
  <2>8. ASSUME NEW commits \in BOOLEAN, StoreStatus(commits) PROVE StatusInv'
    <3>1. checked \in wire /\ FrameTyped(checked)
      BY <2>8 DEF StoreStatus
    <3>2. CASE ~ commits \/ IsReplay(checked)
      BY <2>8, <3>2 DEF StoreStatus
    <3>3. CASE commits /\ ~ IsReplay(checked)
      <4> DEFINE f == checked
                 current == IF provider[f.worker].session = f.session THEN heard[f.worker] ELSE 0
      <4>1. f.sequence \in Nat /\ f.worker \in Adapters
            /\ heard[f.worker] = provider[f.worker].sequence /\ heard[f.worker] \in Nat
        BY <3>1
      <4>2. f.sequence > current
        BY <3>1, <3>3, <4>1 DEF IsReplay
      <4>3. /\ provider' = [provider EXCEPT ![f.worker] = f]
            /\ heard' = [heard EXCEPT ![f.worker] = f.sequence]
            /\ checked' = Silence /\ offered' = NoOffer
            /\ UNCHANGED <<now, adapter, wire, bridge>>
        BY <2>8, <3>3, <4>2 DEF StoreStatus
      <4> QED
        BY <3>1, <4>1, <4>3
    <3> QED
      BY <3>2, <3>3
  <2> QED
    BY <2>1, <2>2, <2>3, <2>4, <2>5, <2>6, <2>7, <2>8 DEF MNext
<1> QED
  BY <1>1, <1>2, PTL DEF MSpec

\* eligible_sessions offers work only on the latest word accepted of that very
\* session, and a fresh one of a connected provider: for any workers, sessions,
\* frames in any order, restarts and clocks that run ahead.
THEOREM OffersFollowLatestWord == MSpec => []OfferedOnLatestWord
<1>1. StatusInv => OfferedOnLatestWord
  BY DEF StatusInv
<1> QED
  BY <1>1, StatusInvHolds, PTL

\* What is signed and what is bridged is of a worker's own sessions, and the
\* frames are counted as they are signed.
BoundedFrames ==
    /\ now \in 0 .. MaxTime /\ IsFiniteSet(wire) /\ Cardinality(wire) <= MaxFrames
    /\ bridge \in [Adapters -> BridgeSessions \cup {Nobody}]

\* The bound on the frames holds in every step of provider.py.
LEMMA BoundedFramesHolds == MSpec => []BoundedFrames
<1> USE ClockAssumption, ProviderAssumption
<1>1. MInit => BoundedFrames
  BY FS_EmptySet DEF MInit, BoundedFrames
<1>2. BoundedFrames /\ [MNext]_mvars => BoundedFrames'
  <2> SUFFICES ASSUME BoundedFrames, [MNext]_mvars PROVE BoundedFrames'
    OBVIOUS
  <2> USE DEF BoundedFrames
  <2>1. CASE UNCHANGED mvars
    BY <2>1 DEF mvars
  <2>2. CASE MTick
    BY <2>2 DEF MTick, Advance
  <2>3. ASSUME NEW w \in Adapters, NEW s \in BridgeSessions, StartWorker(w, s) PROVE BoundedFrames'
    BY <2>3 DEF StartWorker
  <2>4. ASSUME NEW w \in Adapters, NEW connected \in BOOLEAN, NEW ahead \in 0 .. ClockAhead,
               SignStatus(w, connected, ahead)
        PROVE  BoundedFrames'
    <3>1. PICK frame : wire' = wire \cup {frame}
      BY <2>4 DEF SignStatus
    <3>2. /\ IsFiniteSet(wire \cup {frame})
          /\ Cardinality(wire \cup {frame}) \in {Cardinality(wire), Cardinality(wire) + 1}
      BY FS_AddElement
    <3>3. Cardinality(wire) \in Nat /\ Cardinality(wire) < MaxFrames
      BY <2>4, FS_CardinalityType DEF SignStatus
    <3> QED
      BY <2>4, <3>1, <3>2, <3>3 DEF SignStatus
  <2>5. ASSUME NEW w \in Adapters, NEW s \in BridgeSessions \cup {Nobody}, Bridge(w, s)
        PROVE  BoundedFrames'
    BY <2>5 DEF Bridge
  <2>6. ASSUME NEW w \in Adapters, Offer(w) PROVE BoundedFrames'
    BY <2>6 DEF Offer
  <2>7. ASSUME NEW f \in wire, CheckStatus(f) PROVE BoundedFrames'
    BY <2>7 DEF CheckStatus
  <2>8. ASSUME NEW commits \in BOOLEAN, StoreStatus(commits) PROVE BoundedFrames'
    BY <2>8 DEF StoreStatus
  <2> QED
    BY <2>1, <2>2, <2>3, <2>4, <2>5, <2>6, <2>7, <2>8 DEF MNext
<1> QED
  BY <1>1, <1>2, PTL DEF MSpec

\* The row of every worker in af06_provider_status, and the frame of a call
\* that passed its checks (provider.py), is something a worker signed.
THEOREM ProviderTypes == MSpec => []MTypeOK
<1>1. StatusInv /\ BoundedFrames => MTypeOK
  BY DEF StatusInv, FramesTyped, FrameTyped, BoundedFrames, MTypeOK
<1> QED
  BY <1>1, StatusInvHolds, BoundedFramesHolds, PTL

(***************************************************************************)
(* Authentication.  Whatever has been asked in a check held at that moment *)
(* and is remembered in since, and what holds now is remembered as well.   *)
(***************************************************************************)
Looks ==
    [by : {"watcher", "executor", "caller"}, file : Files, pc : {"remote", "signature", "content"},
     late : BOOLEAN, signer : Keys \cup {Nobody}]
WorldTyped ==
    /\ reach \subseteq Commits /\ verifies \subseteq Commits /\ allowed \subseteq Keys
    /\ up \in BOOLEAN /\ late \in BOOLEAN
ItemIsSigned ==
    item # Nobody =>
        /\ item \in Items /\ item.file.commit \in Commits
        /\ Repo[item.file.commit].key = item.signer
AskedHeld ==
    /\ ~ look.late => "timely" \in since
    /\ look.pc \in {"signature", "content"} => "reachable" \in since
    /\ look.signer # Nobody => "verified" \in since /\ Repo[look.file.commit].key = look.signer
    /\ look.pc = "content" /\ (look.by # "caller" \/ setting.signed) =>
           look.signer # Nobody /\ "listed" \in since
LookIsTrue ==
    look # Nobody =>
        /\ look \in Looks /\ look.file.commit \in Commits /\ cleared = Nobody
        /\ look.by = "watcher" <=> item = Nobody
        /\ look.by = "executor" => look.file.commit = item.file.commit
        /\ Holding(look.file.commit) \subseteq since
        /\ AskedHeld
TrustInv ==
    /\ WorldTyped /\ ItemIsSigned /\ since \subseteq Conditions
    /\ LookIsTrue
    /\ item = Nobody => cleared = Nobody
    /\ LetThroughStillTrusted

\* The world moves under a check, which keeps what it has seen.
LEMMA WorldKeepsTrust ==
    ASSUME TrustInv, WorldMoves, WorldTyped' PROVE TrustInv'
<1>1. ItemIsSigned' /\ LetThroughStillTrusted' /\ (item' = Nobody => cleared' = Nobody)
  BY DEF WorldMoves, TrustInv, ItemIsSigned, LetThroughStillTrusted
<1>2. CASE look = Nobody
  BY <1>1, <1>2 DEF WorldMoves, TrustInv, LookIsTrue
<1>3. CASE look # Nobody
  <2>1. PICK h : h = Holding(look.file.commit)'
    OBVIOUS
  <2>2. since' = since \cup h /\ UNCHANGED <<setting, item, look>> /\ cleared' = Nobody
    BY <1>3, <2>1 DEF WorldMoves
  <2>3. h \subseteq Conditions
    BY <2>1 DEF Holding
  <2>4. AskedHeld'
    BY <1>3, <2>2 DEF TrustInv, LookIsTrue, AskedHeld
  <2>5. Holding(look.file.commit)' \subseteq since'
    BY <2>1, <2>2
  <2>6. LookIsTrue'
    BY <1>3, <2>2, <2>4, <2>5 DEF TrustInv, LookIsTrue
  <2> QED
    BY <1>1, <2>2, <2>3, <2>6 DEF TrustInv
<1> QED
  BY <1>2, <1>3

\* A check begins.
LEMMA BeginKeepsTrust ==
    ASSUME TrustInv, NEW by \in {"watcher", "executor", "caller"}, NEW f \in Files, Begin(by, f),
           by = "watcher" <=> item = Nobody,
           by = "executor" => f.commit = item.file.commit
    PROVE  TrustInv'
<1>1. PICK l : l = [by |-> by, file |-> f, pc |-> "remote", late |-> late, signer |-> Nobody]
  OBVIOUS
<1>2. /\ look' = l /\ since' = Holding(f.commit) /\ cleared' = Nobody /\ f.commit \in Commits
      /\ UNCHANGED <<reach, up, verifies, allowed, late, setting, item>>
  BY <1>1 DEF Begin, gitWorld
<1>3. l \in Looks
  BY <1>1 DEF Looks, TrustInv, WorldTyped
<1>4. AskedHeld'
  BY <1>1, <1>2 DEF AskedHeld, Holding, Conditions
<1>5. Holding(f.commit)' = Holding(f.commit) /\ Holding(f.commit) \subseteq Conditions
  BY <1>2 DEF Holding
<1>6. l.file = f /\ l.by = by
  BY <1>1
<1>7. LookIsTrue'
  BY <1>2, <1>3, <1>4, <1>5, <1>6 DEF LookIsTrue
<1> QED
  BY <1>2, <1>5, <1>7 DEF TrustInv, WorldTyped, ItemIsSigned, LetThroughStillTrusted

\* A check goes on, with what it has found.
LEMMA ProceedKeepsTrust ==
    ASSUME TrustInv, look # Nobody, NEW pc \in {"signature", "content"},
           NEW signer \in Keys \cup {Nobody}, Proceed(pc, signer), "reachable" \in since,
           signer # Nobody => "verified" \in since /\ Repo[look.file.commit].key = signer,
           pc = "content" /\ (look.by # "caller" \/ setting.signed) => signer # Nobody /\ "listed" \in since
    PROVE  TrustInv'
<1>1. PICK l : l = [look EXCEPT !.pc = pc, !.signer = signer]
  OBVIOUS
<1>2. look' = l /\ UNCHANGED <<reach, up, verifies, allowed, late, setting, item, since, cleared>>
  BY <1>1 DEF Proceed, gitWorld
<1>3. look \in Looks /\ look.file.commit \in Commits
  BY DEF TrustInv, LookIsTrue
<1>4. /\ l \in Looks /\ l.pc = pc /\ l.signer = signer
      /\ l.file = look.file /\ l.by = look.by /\ l.late = look.late
  BY <1>1, <1>3 DEF Looks
<1>5. AskedHeld'
  BY <1>2, <1>4 DEF TrustInv, LookIsTrue, AskedHeld
<1>6. Holding(l.file.commit)' = Holding(look.file.commit)
  BY <1>2, <1>4 DEF Holding
<1>7. LookIsTrue'
  BY <1>2, <1>3, <1>4, <1>5, <1>6 DEF TrustInv, LookIsTrue
<1> QED
  BY <1>2, <1>7 DEF TrustInv, WorldTyped, ItemIsSigned, LetThroughStillTrusted

LEMMA TrustStep == ASSUME TrustInv, [AuthNext]_cvars PROVE TrustInv'
<1> USE AuthenticationAssumption
<1>1. CASE UNCHANGED cvars
  BY <1>1 DEF cvars, gitWorld, TrustInv, WorldTyped, ItemIsSigned, LookIsTrue, AskedHeld, Holding,
       LetThroughStillTrusted
<1>2. CASE Push \/ Outage \/ Lapse \/ (\E c \in Commits : Revoke(c)) \/ \E k \in Keys : Delist(k)
  <2>1. WorldMoves
    BY <1>2 DEF Push, Outage, Lapse, Revoke, Delist
  <2>2. PICK b \in BOOLEAN : up' = b
    BY <1>2 DEF Push, Outage, Lapse, Revoke, Delist, TrustInv, WorldTyped
  <2>3. PICK l \in BOOLEAN : late' = l
    BY <1>2 DEF Push, Outage, Lapse, Revoke, Delist, TrustInv, WorldTyped
  <2>4. reach' \subseteq Commits /\ verifies' \subseteq Commits /\ allowed' \subseteq Keys
    BY <1>2 DEF Push, Outage, Lapse, Revoke, Delist, TrustInv, WorldTyped
  <2> QED
    BY <2>1, <2>2, <2>3, <2>4, WorldKeepsTrust DEF WorldTyped
<1>3. ASSUME NEW f \in Inbox, Examine(f) PROVE TrustInv'
  BY <1>3, BeginKeepsTrust DEF Examine
<1>4. CASE Revalidate
  <2>1. item \in Items /\ item # Nobody
    BY <1>4 DEF Revalidate, TrustInv, ItemIsSigned
  <2>2. PICK f : f = [item.file EXCEPT !.source = TRUE, !.branch = TRUE, !.hash = item.hash, !.path = "id"]
    OBVIOUS
  <2>3. f \in Files /\ f.commit = item.file.commit
    BY <2>1, <2>2 DEF Items, Files, Paths
  <2>4. Begin("executor", f)
    BY <1>4, <2>2 DEF Revalidate
  <2> QED
    BY <2>1, <2>3, <2>4, BeginKeepsTrust
<1>5. ASSUME NEW c \in Commits, NEW path \in Paths, RevalidateBefore(c, path) PROVE TrustInv'
  <2>1. item \in Items /\ item # Nobody
    BY <1>5 DEF RevalidateBefore, TrustInv, ItemIsSigned
  <2>2. PICK f : f = [item.file EXCEPT !.commit = c, !.path = path]
    OBVIOUS
  <2>3. f \in Files
    BY <2>1, <2>2 DEF Items, Files
  <2>4. Begin("caller", f)
    BY <1>5, <2>2 DEF RevalidateBefore
  <2> QED
    BY <2>1, <2>3, <2>4, BeginKeepsTrust
<1>6. CASE AskRemote
  <2>1. look # Nobody /\ Proceed("signature", Nobody) /\ up /\ look.file.commit \in reach
    BY <1>6 DEF AskRemote, Answers
  <2>2. "reachable" \in since
    BY <2>1 DEF Holding, Conditions, TrustInv, LookIsTrue
  <2> QED
    BY <2>1, <2>2, ProceedKeepsTrust
<1>7. CASE VerifySignature
  <2> DEFINE c == look.file.commit
             k == Signer(c)
  <2>1. /\ look # Nobody /\ look.pc = "signature" /\ Proceed("content", k) /\ c \in Commits
        /\ look.by # "caller" \/ setting.signed => k \in allowed
    BY <1>7 DEF VerifySignature, TrustInv, LookIsTrue
  <2>2. k \in Keys \cup {Nobody} /\ (k # Nobody => Repo[c].key = k /\ c \in verifies)
    BY <2>1 DEF Signer
  <2>3. k # Nobody => "verified" \in since
    BY <2>1, <2>2 DEF Holding, Conditions, TrustInv, LookIsTrue
  <2>4. look.by # "caller" \/ setting.signed => k # Nobody /\ Repo[c].key \in allowed
    BY <2>1, <2>2 DEF TrustInv, WorldTyped
  <2>5. look.by # "caller" \/ setting.signed => "listed" \in since
    BY <2>1, <2>4 DEF Holding, Conditions, TrustInv, LookIsTrue
  <2>6. "reachable" \in since
    BY <2>1 DEF TrustInv, LookIsTrue, AskedHeld
  <2> HIDE DEF k
  <2> QED
    BY <2>1, <2>2, <2>3, <2>4, <2>5, <2>6, ProceedKeepsTrust
<1>8. CASE Admit
  <2> DEFINE f == look.file
  <2>1. PICK z : z = [file |-> f, hash |-> Blob(f.commit, f.path), signer |-> look.signer, readback |-> TRUE]
    OBVIOUS
  <2>2. /\ look # Nobody /\ look.pc = "content" /\ look.by = "watcher" /\ Authentic(f) /\ item' = z
        /\ look' = Nobody /\ since' = {}
        /\ UNCHANGED <<reach, up, verifies, allowed, late, setting, cleared>>
    BY <1>8, <2>1 DEF Admit, gitWorld
  <2>3. look \in Looks /\ f.commit \in Commits /\ cleared = Nobody /\ AskedHeld
    BY <2>2 DEF TrustInv, LookIsTrue
  <2>4. look.signer \in Keys /\ Repo[f.commit].key = look.signer /\ f \in Files
    BY <2>2, <2>3 DEF AskedHeld, Looks
  <2>5. Blob(f.commit, f.path) \in Bodies
    <3>1. f.path \in {"own", "id"}
      BY <2>4 DEF Files, Paths
    <3> QED
      BY <2>2, <2>3, <3>1 DEF Blob, Authentic
  <2>6. z \in Items /\ z.file = f /\ z.signer = look.signer
    BY <2>1, <2>4, <2>5 DEF Items
  <2>7. ItemIsSigned' /\ item' # Nobody
    BY <2>2, <2>3, <2>4, <2>6 DEF ItemIsSigned
  <2> QED
    BY <2>2, <2>3, <2>7 DEF TrustInv, WorldTyped, LookIsTrue, LetThroughStillTrusted
<1>9. CASE LetThrough
  <2>1. PICK p : p = [by |-> look.by, commit |-> look.file.commit, held |-> since]
    OBVIOUS
  <2>2. /\ look # Nobody /\ look.pc = "content" /\ cleared' = p /\ look' = Nobody /\ since' = {}
        /\ \/ look.by = "executor" /\ ~ look.late /\ setting.mutating
           \/ look.by = "caller" /\ look.file.commit = item.file.commit /\ look.signer = item.signer
        /\ UNCHANGED <<reach, up, verifies, allowed, late, setting, item>>
    BY <1>9, <2>1 DEF LetThrough, Authentic, SameSnapshot, gitWorld
  <2>3. /\ AskedHeld /\ (look.by = "executor" => look.file.commit = item.file.commit)
        /\ item # Nobody
    BY <2>2 DEF TrustInv, LookIsTrue
  <2>4. item \in Items /\ Repo[item.file.commit].key = item.signer /\ look.file.commit = item.file.commit
    BY <2>2, <2>3 DEF TrustInv, ItemIsSigned
  <2>5. item.signer # Nobody
    BY <2>4 DEF Items
  <2>6. /\ {"reachable", "verified"} \subseteq since
        /\ setting.signed \/ look.by = "executor" => "listed" \in since
        /\ look.by = "executor" => "timely" \in since /\ setting.mutating
    BY <2>2, <2>3, <2>4, <2>5 DEF AskedHeld
  <2>7. LetThroughStillTrusted'
    BY <2>1, <2>2, <2>4, <2>6 DEF LetThroughStillTrusted
  <2> QED
    BY <2>2, <2>3, <2>7 DEF TrustInv, WorldTyped, ItemIsSigned, LookIsTrue
<1>10. CASE RefuseDirective
  <2>1. look' = Nobody /\ since' = {}
        /\ UNCHANGED <<reach, up, verifies, allowed, late, setting, item, cleared>>
    BY <1>10 DEF RefuseDirective, gitWorld
  <2> QED
    BY <2>1 DEF TrustInv, WorldTyped, ItemIsSigned, LookIsTrue, LetThroughStillTrusted
<1>11. CASE Reload
  <2>1. /\ item # Nobody /\ item' = [item EXCEPT !.readback = FALSE] /\ cleared' = Nobody
        /\ UNCHANGED <<reach, up, verifies, allowed, late, setting>>
        /\ (look' = Nobody /\ since' = {}) \/ UNCHANGED <<look, since>>
    BY <1>11 DEF Reload, gitWorld
  <2>2. item' \in Items /\ item'.file = item.file /\ item'.signer = item.signer
    BY <2>1 DEF TrustInv, ItemIsSigned, Items
  <2>3. ItemIsSigned' /\ item' # Nobody
    BY <2>1, <2>2 DEF TrustInv, ItemIsSigned
  <2>4. LookIsTrue' /\ since' \subseteq Conditions
    BY <2>1, <2>2, <2>3 DEF TrustInv, LookIsTrue, AskedHeld, Holding
  <2> QED
    BY <2>1, <2>3, <2>4 DEF TrustInv, WorldTyped, LetThroughStillTrusted
<1> QED
  BY <1>1, <1>2, <1>3, <1>4, <1>5, <1>6, <1>7, <1>8, <1>9, <1>10, <1>11 DEF AuthNext

LEMMA TrustHolds == AuthSpec => []TrustInv
<1>1. AuthInit => TrustInv
  BY DEF AuthInit, WorldInit, NothingAsked, TrustInv, WorldTyped, ItemIsSigned, LookIsTrue, LetThroughStillTrusted
<1>2. TrustInv /\ [AuthNext]_cvars => TrustInv'
  BY TrustStep
<1> QED
  BY <1>1, <1>2, PTL DEF AuthSpec

\* Whatever a revalidation lets through is the commit that was ingested, signed
\* by the key it was admitted under, and was reachable, verified, listed and in
\* time at some moment since the revalidation began (authenticator.py,
\* executor.py): for any repository, keys and files, and whatever is pushed,
\* revoked, delisted or restarted between any two of its Git commands.
THEOREM TrustIsCheckedAgain == AuthSpec => []LetThroughStillTrusted
<1>1. TrustInv => LetThroughStillTrusted
  BY DEF TrustInv
<1> QED
  BY <1>1, TrustHolds, PTL

\* The queued record keeps the fields the two revalidations compare
\* (authenticator.py, executor.py), over reloads and whatever changes around it,
\* and so does what a check has in hand between two Git commands.
THEOREM AuthenticationTypes == AuthSpec => []AuthTypeOK
<1>1. TrustInv => AuthTypeOK
  BY DEF TrustInv, WorldTyped, ItemIsSigned, LookIsTrue, Looks, AuthTypeOK
<1> QED
  BY <1>1, TrustHolds, PTL

(***************************************************************************)
(* The status of a project.  A status is evaluated once everything has     *)
(* been seen, and nothing is looked at again before the next sweep.        *)
(***************************************************************************)
ObservationTyped ==
    /\ seen.git \in GitAnswers \cup {Nobody} /\ seen.running \in BOOLEAN \cup {Nobody}
    /\ seen.files \in Seq(Evidences) /\ DOMAIN seen = {"git", "running", "files"}
ObservedInOrder ==
    /\ seen.running # Nobody => seen.git # Nobody
    /\ Len(seen.files) # 0 => seen.running # Nobody
EvaluatedAsSeen ==
    status # Nobody =>
        /\ Len(seen.files) = Len(StateFiles)
        /\ status.value \in PossibleStatuses
        /\ status.verification = "VERIFIED" => ~ StateConflict /\ HeadVerification = "VERIFIED"
StatusIsDerived == ObservationTyped /\ ObservedInOrder /\ EvaluatedAsSeen

LEMMA StatusIsDerivedHolds == PSpec => []StatusIsDerived
<1> USE ProjectStatusAssumption
<1>1. PInit => StatusIsDerived
  BY DEF PInit, NotSeen, StatusIsDerived, ObservationTyped, ObservedInOrder, EvaluatedAsSeen
<1>2. StatusIsDerived /\ [PNext]_pvars => StatusIsDerived'
  <2> SUFFICES ASSUME StatusIsDerived, [PNext]_pvars PROVE StatusIsDerived'
    OBVIOUS
  <2>1. ASSUME UNCHANGED <<subject, seen>>
        PROVE  /\ PossibleStatuses' = PossibleStatuses /\ (StateConflict' <=> StateConflict)
               /\ HeadVerification' = HeadVerification
    BY <2>1 DEF PossibleStatuses, StateConflict, HeadVerification, Declarations, Values, Winners,
                ReadIndices, Beats, Overdue, HumanAsked, Unexpected, StatusOf, LocalHeads
  <2>2. CASE UNCHANGED pvars
    BY <2>1, <2>2 DEF pvars, StatusIsDerived, ObservationTyped, ObservedInOrder, EvaluatedAsSeen
  <2>3. ASSUME NEW answer \in GitAnswers, ReadGit(answer) PROVE StatusIsDerived'
    <3>1. status = Nobody
      BY <2>3 DEF ReadGit, StatusIsDerived, ObservedInOrder, EvaluatedAsSeen, StateFiles
    <3> QED
      BY <2>3, <3>1 DEF ReadGit, StatusIsDerived, ObservationTyped, ObservedInOrder, EvaluatedAsSeen
  <2>4. ASSUME NEW running \in BOOLEAN, ReadProcesses(running) PROVE StatusIsDerived'
    <3>1. status = Nobody
      BY <2>4 DEF ReadProcesses, StatusIsDerived, ObservedInOrder, EvaluatedAsSeen, StateFiles
    <3> QED
      BY <2>4, <3>1 DEF ReadProcesses, StatusIsDerived, ObservationTyped, ObservedInOrder, EvaluatedAsSeen
  <2>5. ASSUME NEW w \in Written, ReadFile(w) PROVE StatusIsDerived'
    <3>1. status = Nobody
      BY <2>5 DEF ReadFile, StatusIsDerived, EvaluatedAsSeen
    <3> QED
      BY <2>5, <3>1 DEF ReadFile, StatusIsDerived, ObservationTyped, ObservedInOrder, EvaluatedAsSeen
  <2>6. ASSUME NEW canonical, Evaluate(canonical) PROVE StatusIsDerived'
    <3>1. /\ Len(seen.files) = Len(StateFiles) /\ canonical \in PossibleStatuses
          /\ status'.value = canonical /\ UNCHANGED <<subject, seen>>
          /\ status'.verification = "VERIFIED" => ~ StateConflict /\ HeadVerification = "VERIFIED"
      BY <2>6 DEF Evaluate
    <3>2. EvaluatedAsSeen'
      BY <2>1, <3>1 DEF EvaluatedAsSeen
    <3> QED
      BY <3>1, <3>2 DEF StatusIsDerived, ObservationTyped, ObservedInOrder
  <2>7. CASE NextSweep
    BY <2>7 DEF NextSweep, NotSeen, StatusIsDerived, ObservationTyped, ObservedInOrder, EvaluatedAsSeen
  <2> QED
    BY <2>2, <2>3, <2>4, <2>5, <2>6, <2>7 DEF PNext
<1> QED
  BY <1>1, <1>2, PTL DEF PSpec

\* What is declared is one of four words, so there are finitely many.
LEMMA AgreementIsOne ==
    ASSUME ObservationTyped, ~ Disagree(Declarations), NEW d \in Declarations, NEW e \in Declarations
    PROVE  d.value = e.value
<1>1. PICK V : V = {x.value : x \in Declarations}
  OBVIOUS
<1>2. V \subseteq Declared
  <2> SUFFICES ASSUME NEW x \in Declarations PROVE x.value \in Declared
    BY <1>1
  <2>1. PICK i \in ReadIndices : x.value \in {seen.files[i].says, seen.files[i].pulse} /\ x.value # Nobody
    BY DEF Declarations
  <2>2. seen.files[i] \in Evidences
    BY <2>1 DEF ReadIndices, ObservationTyped
  <2> QED
    BY <2>1, <2>2 DEF Evidences
<1>3. IsFiniteSet(Declared)
  <2>1. Declared = ((({} \cup {"PASS"}) \cup {"DEVELOPING"}) \cup {"RUNNING"}) \cup {"UNKNOWN"}
    BY DEF Declared
  <2> QED
    BY <2>1, FS_EmptySet, FS_AddElement
<1>4. IsFiniteSet(V)
  BY <1>2, <1>3, FS_Subset
<1>5. Cardinality(V) \in Nat /\ Cardinality(V) <= 1
  BY <1>1, <1>4, FS_CardinalityType DEF Disagree
<1> SUFFICES ASSUME d.value # e.value PROVE FALSE
  OBVIOUS
<1>6. {d.value, e.value} \subseteq V
  BY <1>1
<1>7. Cardinality({d.value} \cup {e.value}) = 2
  <2>1. IsFiniteSet({d.value}) /\ Cardinality({d.value}) = 1
    BY FS_Singleton
  <2>2. Cardinality({d.value} \cup {e.value}) =
            IF e.value \in {d.value} THEN Cardinality({d.value}) ELSE Cardinality({d.value}) + 1
    BY <2>1, FS_AddElement
  <2> QED
    BY <2>1, <2>2
<1>8. {d.value} \cup {e.value} = {d.value, e.value}
  OBVIOUS
<1> QED
  BY <1>4, <1>5, <1>6, <1>7, <1>8, FS_Subset

\* A status published as VERIFIED is the only one that follows from what was
\* seen, and no head that is known locally contradicts that of the remote
\* (evaluator.py:256): for any evidence files and answers.
THEOREM VerifiedStatusIsTheOnlyOne == PSpec => []VerifiedIsUnambiguous
<1>1. StatusIsDerived => VerifiedIsUnambiguous
  <2> SUFFICES ASSUME StatusIsDerived, status # Nobody, status.verification = "VERIFIED"
               PROVE  /\ PossibleStatuses = {status.value}
                      /\ seen.git.remote = "pushed" /\ "other" \notin LocalHeads
                      /\ \A d, e \in Declarations : d.value = e.value
                      /\ subject.expected /\ "RUNNING" \in Values => status.value = "RUNNING"
    BY DEF VerifiedIsUnambiguous
  <2>1. /\ status.value \in PossibleStatuses /\ ~ StateConflict /\ HeadVerification = "VERIFIED"
        /\ ObservationTyped /\ seen.git \in GitAnswers
    <3>1. Len(seen.files) = 3
      BY DEF StatusIsDerived, EvaluatedAsSeen, StateFiles
    <3>2. seen.git # Nobody
      BY <3>1 DEF StatusIsDerived, ObservedInOrder
    <3> QED
      BY <3>2 DEF StatusIsDerived, EvaluatedAsSeen, ObservationTyped
  <2>2. seen.git.remote = "pushed" /\ "other" \notin LocalHeads
    <3>1. seen.git.remote \in RemoteAnswers
      BY <2>1 DEF GitAnswers
    <3> QED
      BY <2>1, <3>1 DEF HeadVerification, RemoteAnswers
  <2>3. \A d, e \in Declarations : d.value = e.value
    BY <2>1, AgreementIsOne DEF StateConflict
  <2>4. \A a, b \in PossibleStatuses : a = b
    <3>1. \A d, e \in Winners : StatusOf(d.value) = StatusOf(e.value)
      BY <2>3 DEF Winners
    <3> QED
      BY <3>1 DEF PossibleStatuses
  <2>5. ASSUME subject.expected, "RUNNING" \in Values PROVE status.value = "RUNNING"
    <3>1. seen.running
      BY <2>1, <2>5 DEF StateConflict
    <3> QED
      BY <2>1, <2>5, <3>1 DEF PossibleStatuses
  <2> QED
    BY <2>1, <2>2, <2>3, <2>4, <2>5
<1> QED
  BY <1>1, StatusIsDerivedHolds, PTL

VerificationTyped == status # Nobody => status.verification \in {"VERIFIED", "CONFLICT", "LOCAL_ONLY"}
ShortRead == Len(seen.files) <= Len(StateFiles)

\* What an observation of a project has read so far, and the status evaluated
\* from it (git_observer.py, evaluator.py), are of the values they are compared with.
THEOREM StatusTypes == PSpec => []PTypeOK
<1>1. PInit => VerificationTyped /\ ShortRead
  BY DEF PInit, VerificationTyped, ShortRead, NotSeen, StateFiles
<1>2. StatusIsDerived /\ VerificationTyped /\ ShortRead /\ [PNext]_pvars => VerificationTyped' /\ ShortRead'
  <2> SUFFICES ASSUME StatusIsDerived, VerificationTyped, ShortRead, [PNext]_pvars
               PROVE  VerificationTyped' /\ ShortRead'
    OBVIOUS
  <2>0. seen.files \in Seq(Evidences) /\ DOMAIN seen = {"git", "running", "files"} /\ Len(StateFiles) = 3
    BY DEF StatusIsDerived, ObservationTyped, StateFiles
  <2>1. CASE UNCHANGED pvars
    BY <2>1 DEF pvars, VerificationTyped, ShortRead
  <2>2. ASSUME NEW answer \in GitAnswers, ReadGit(answer) PROVE VerificationTyped' /\ ShortRead'
    BY <2>0, <2>2 DEF ReadGit, VerificationTyped, ShortRead
  <2>3. ASSUME NEW running \in BOOLEAN, ReadProcesses(running) PROVE VerificationTyped' /\ ShortRead'
    BY <2>0, <2>3 DEF ReadProcesses, VerificationTyped, ShortRead
  <2>4. ASSUME NEW w \in Written, ReadFile(w) PROVE VerificationTyped' /\ ShortRead'
    <3>1. w \in Evidences /\ Len(StateFiles)' = Len(StateFiles)
      BY ProjectStatusAssumption DEF StateFiles
    <3>2. seen'.files = Append(seen.files, w)
      BY <2>0, <2>4 DEF ReadFile
    <3> QED
      BY <2>0, <2>4, <3>1, <3>2 DEF ReadFile, VerificationTyped, ShortRead
  <2>5. ASSUME NEW canonical, Evaluate(canonical) PROVE VerificationTyped' /\ ShortRead'
    BY <2>5 DEF Evaluate, VerificationTyped, ShortRead
  <2>6. CASE NextSweep
    BY <2>6 DEF NextSweep, NotSeen, VerificationTyped, ShortRead, StateFiles
  <2> QED
    BY <2>1, <2>2, <2>3, <2>4, <2>5, <2>6 DEF PNext
<1>3. StatusIsDerived /\ VerificationTyped /\ ShortRead => PTypeOK
  BY DEF StatusIsDerived, ObservationTyped, VerificationTyped, ShortRead, PTypeOK
<1> QED
  BY <1>1, <1>2, <1>3, StatusIsDerivedHolds, PTL DEF PSpec
=============================================================================
