----------------------- MODULE ExternalGatewayProofs -----------------------
(***************************************************************************)
(* Proofs about ExternalGateway, for any number of workers, sessions and   *)
(* messages.  Every step of the gateway is a step of the store, so what    *)
(* TaskStoreProofs shows of the store holds behind the gateway too.  The   *)
(* rows of a dispatch are then followed through a call, statement by       *)
(* statement: GatewayInv says what each statement may rely on.             *)
(***************************************************************************)
EXTENDS ExternalGateway, TaskStoreProofs

\* What the call in progress has established.
CallTrue ==
  LET i == call.disp
  IN  /\ call.kind \in {"ACK", "RESULT"} => i \in entered
      /\ call.kind = "RESULT" => i \in acked
      /\ call.kind \in {"ACK", "RESULT"} =>
           i[2] = call.worker /\ call.worker \notin revoked /\ sess[call.worker].st = "AUTHENTICATED"
      /\ call.step = "mark" /\ HeldAs(i) =>
           state[TaskOf(i)] \in {"REVIEW_PENDING"} \cup (IF call.kind = "ACK" THEN {"RUNNING"} ELSE {})
      /\ call.step = "mark" => call.kind \in {"ACK", "RESULT"}
      /\ call.step = "spool" =>
           /\ i \in Dispatches /\ LeaseOf(i) > 0 /\ LeaseOf(i) <= granted[TaskOf(i)]
           /\ \A j \in spooled : ~(TaskOf(j) = TaskOf(i) /\ LeaseOf(j) = LeaseOf(i))
      /\ call.step = "enter" => i \in spooled

\* A worker with a session state has a session id.
NamedSessions == \A w \in Workers : sess[w].st # "NONE" => sess[w].id \in Sessions

\* A call that will record a message id has one.
NamedMessage == call.step = "record" => call.msg \in Messages

LeasesIssued ==
  /\ \A t \in Tasks : lease[t] <= granted[t]
  /\ \A i \in spooled : LeaseOf(i) > 0 /\ LeaseOf(i) <= granted[TaskOf(i)]

GatewayInv ==
  /\ GTypeOK /\ NamedSessions /\ NamedMessage /\ LeasesIssued /\ CallTrue
  /\ DispatchRowsTrue /\ OneDispatchPerLease /\ EvidenceFromAcker
-----------------------------------------------------------------------------

LEMMA InitGateway == GInit => GatewayInv
  BY StoreConstants, GatewayConstants
  DEF GInit, Init, GatewayInv, GTypeOK, NamedSessions, NamedMessage, LeasesIssued, CallTrue, DispatchRowsTrue,
      OneDispatchPerLease, EvidenceFromAcker, NoRow, NoCall, InCall, NoDispatch, Steps, Kinds

\* A step of the gateway is a step of the store, or leaves the store alone.
LEMMA GatewayStepOfStore ==
  ASSUME GatewayInv, GNext
  PROVE  [Next]_vars
<1>1. \A i \in Dispatches : TaskOf(i) \in Tasks
  BY DEF Dispatches, TaskOf
<1>2. call.kind \in {"ACK", "RESULT"} => TaskOf(call.disp) \in Tasks
  BY <1>1 DEF GatewayInv, CallTrue, DispatchRowsTrue, GTypeOK
<1>3. CASE GTick
  BY <1>3 DEF GTick, Next
<1>4. CASE OtherConnection
  BY <1>4 DEF OtherConnection, Next, TaskStep, CallStep
<1>5. CASE SessionStep
  BY <1>5 DEF SessionStep, RevokeProfile, IssueChallenge, Authenticate, Next, WorkerStep
<1>6. CASE FrameStep
  BY <1>6 DEF FrameStep, HeartbeatFrame, AckFrame, ResultFrame, Next, WorkerStep
<1>7. CASE RouteStep
  BY <1>7 DEF RouteStep, RouteNobody, Route, Next, TaskStep
<1>8. CASE CallProgress
  BY <1>2, <1>8 DEF CallProgress, RecordMessage, AdvanceSession, Refused, MarkAck, MarkResult,
     RevokeSession, EnterDispatch, ApplyAck, SpoolDispatch, ApplyResult, Next, TaskStep
<1>9. CASE Restart
  BY <1>9 DEF Restart
<1> QED BY <1>3, <1>4, <1>5, <1>6, <1>7, <1>8, <1>9 DEF GNext

\* What any store operation but a start or a delivery may do to a task: leave it
\* alone, clear its lease, give it a new one, or move it between unleased states.
InProgress == {"RUNNING", "REVIEW_PENDING"}
Benign ==
  /\ \A t \in Tasks :
       /\ granted[t] <= granted'[t] /\ lease'[t] <= granted'[t]
       /\ \/ state'[t] = state[t] /\ owner'[t] = owner[t] /\ lease'[t] = lease[t]
          \/ lease'[t] = 0 /\ state'[t] \notin InProgress
          \/ lease'[t] > granted[t] /\ state'[t] \notin InProgress
          \/ /\ state[t] \notin InProgress /\ state'[t] \notin InProgress
             /\ owner'[t] = owner[t] /\ lease'[t] = lease[t]
  /\ granted' \in [Tasks -> Nat] /\ lease' \in [Tasks -> Nat]

DispatchRows == <<spooled, entered, acked, received>>

LEMMA BenignRows ==
  ASSUME SharedInv, GatewayInv, Benign, UNCHANGED DispatchRows
  PROVE  LeasesIssued' /\ DispatchRowsTrue' /\ OneDispatchPerLease' /\ EvidenceFromAcker'
<1> USE DEF DispatchRows
<1>1. /\ granted \in [Tasks -> Nat] /\ lease \in [Tasks -> Nat]
      /\ granted' \in [Tasks -> Nat] /\ lease' \in [Tasks -> Nat]
  BY DEF SharedInv, TypeOK, Benign
<1>2. \A i \in spooled : TaskOf(i) \in Tasks /\ LeaseOf(i) \in Nat
  BY DEF GatewayInv, GTypeOK, Dispatches, TaskOf, LeaseOf
<1>3. LeasesIssued'
  BY <1>1, <1>2 DEF GatewayInv, LeasesIssued, Benign
<1>4. received \subseteq acked /\ acked \subseteq entered /\ entered \subseteq spooled
  BY DEF GatewayInv, DispatchRowsTrue
<1>5. ASSUME NEW i \in spooled, HeldAs(i)'
      PROVE  /\ HeldAs(i)
             /\ state[TaskOf(i)] \in InProgress => state'[TaskOf(i)] = state[TaskOf(i)]
  BY <1>1, <1>2, <1>5 DEF Benign, HeldAs, GatewayInv, LeasesIssued
<1>6. DispatchRowsTrue'
  BY <1>4, <1>5 DEF GatewayInv, DispatchRowsTrue, InProgress
<1>7. OneDispatchPerLease'
  BY DEF GatewayInv, OneDispatchPerLease
<1>8. EvidenceFromAcker'
  <2>1. ASSUME NEW t \in Tasks, state'[t] \in InProgress
        PROVE  state'[t] = state[t] /\ owner'[t] = owner[t] /\ lease'[t] = lease[t]
    BY <2>1 DEF Benign
  <2> QED BY <2>1 DEF GatewayInv, EvidenceFromAcker, HeldAs, InProgress
<1> QED BY <1>3, <1>6, <1>7, <1>8

LEMMA BenignCall ==
  ASSUME SharedInv, GatewayInv, Benign, UNCHANGED <<DispatchRows, call>>,
         call.kind \in {"ACK", "RESULT"} => UNCHANGED <<revoked, sess>>
  PROVE  CallTrue'
<1> USE DEF DispatchRows
<1>1. /\ granted \in [Tasks -> Nat] /\ lease \in [Tasks -> Nat]
      /\ granted' \in [Tasks -> Nat] /\ lease' \in [Tasks -> Nat]
  BY DEF SharedInv, TypeOK, Benign
<1>2. \A i \in Dispatches : TaskOf(i) \in Tasks /\ LeaseOf(i) \in Nat
  BY DEF Dispatches, TaskOf, LeaseOf
<1>3. call.step = "mark" =>
        /\ TaskOf(call.disp) \in Tasks /\ LeaseOf(call.disp) \in Nat
        /\ LeaseOf(call.disp) > 0 /\ LeaseOf(call.disp) <= granted[TaskOf(call.disp)]
  BY <1>2 DEF GatewayInv, GTypeOK, CallTrue, LeasesIssued, DispatchRowsTrue
<1>4. call.step = "mark" /\ HeldAs(call.disp)' =>
        /\ HeldAs(call.disp)
        /\ state[TaskOf(call.disp)] \in InProgress =>
              state'[TaskOf(call.disp)] = state[TaskOf(call.disp)]
  BY <1>1, <1>3 DEF Benign, HeldAs
<1>5. call.step = "spool" => call.disp \in Dispatches
                            /\ LeaseOf(call.disp) <= granted'[TaskOf(call.disp)]
  BY <1>1, <1>2 DEF GatewayInv, CallTrue, Benign
<1> QED BY <1>4, <1>5 DEF GatewayInv, CallTrue, InProgress
-----------------------------------------------------------------------------
(* What the store operations of a gateway step do to the tasks. *)

LEMMA UnchangedBenign ==
  ASSUME SharedInv, GatewayInv, UNCHANGED <<state, owner, lease, granted>>
  PROVE  Benign
  BY DEF SharedInv, TypeOK, GatewayInv, LeasesIssued, Benign

LEMMA ChargeBenign ==
  ASSUME SharedInv, GatewayInv, NEW t \in Tasks, NEW a, Charge(t, a)
  PROVE  Benign
<1>1. granted' = granted /\ lease' \in [Tasks -> Nat] /\ granted \in [Tasks -> Nat]
  BY DEF SharedInv, TypeOK, Charge, ChargeTo
<1>2. state'[t] \notin InProgress /\ lease'[t] = 0
  BY DEF SharedInv, TypeOK, Charge, ChargeTo, InProgress
<1>3. \A u \in Tasks \ {t} : state'[u] = state[u] /\ owner'[u] = owner[u] /\ lease'[u] = lease[u]
  BY DEF SharedInv, TypeOK, Charge, ChargeTo
<1> QED BY <1>1, <1>2, <1>3 DEF Benign, GatewayInv, LeasesIssued

LEMMA ClaimBenign ==
  ASSUME SharedInv, GatewayInv, NEW t \in Tasks, NEW w \in Workers, NEW d \in Lags, Claim(t, w, d)
  PROVE  Benign
<1>1. /\ granted \in [Tasks -> Nat] /\ granted' \in [Tasks -> Nat]
      /\ lease \in [Tasks -> Nat] /\ lease' \in [Tasks -> Nat]
  BY DEF SharedInv, TypeOK, Claim, TakeLease
<1>2. /\ state'[t] \notin InProgress
      /\ granted'[t] = granted[t] + 1 /\ lease'[t] = granted[t] + 1
  BY <1>1 DEF SharedInv, TypeOK, Claim, TakeLease, InProgress
<1>3. \A u \in Tasks \ {t} : /\ state'[u] = state[u] /\ owner'[u] = owner[u]
                            /\ lease'[u] = lease[u] /\ granted'[u] = granted[u]
  BY DEF SharedInv, TypeOK, Claim, TakeLease
<1> QED BY <1>1, <1>2, <1>3 DEF Benign, GatewayInv, LeasesIssued

\* A task that is not in progress, and is not put in progress, keeping its lease.
LEMMA MoveBenign ==
  ASSUME SharedInv, GatewayInv, NEW t \in Tasks, NEW s, state[t] \notin InProgress,
         s \notin InProgress, state' = [state EXCEPT ![t] = s], UNCHANGED <<owner, lease, granted>>
  PROVE  Benign
  BY DEF SharedInv, TypeOK, GatewayInv, LeasesIssued, Benign

LEMMA OthersBenign ==
  ASSUME SharedInv, GatewayInv, OtherConnection
  PROVE  Benign
<1>1. ASSUME NEW t \in Tasks, CreateTask(t) PROVE Benign
  BY <1>1, MoveBenign DEF CreateTask, InProgress
<1>2. ASSUME NEW t \in Tasks, NEW d \in Lags, ReclaimExpired(t, d) PROVE Benign
  BY <1>2, ChargeBenign DEF ReclaimExpired
<1>3. ASSUME NEW c \in Clients, ReviewWrite(c) PROVE Benign
  <2> DEFINE t == pending[c].task
  <2>1. t \in Tasks
    BY <1>3 DEF ReviewWrite, SharedInv, CallInv, CallOK
  <2>2. granted' = granted /\ lease' \in [Tasks -> Nat] /\ granted \in [Tasks -> Nat]
    BY <1>3 DEF ReviewWrite, SharedInv, TypeOK
  <2>3. state'[t] \notin InProgress /\ lease'[t] = 0
    BY <1>3, <2>1 DEF ReviewWrite, SharedInv, TypeOK, InProgress
  <2>4. \A u \in Tasks \ {t} : state'[u] = state[u] /\ owner'[u] = owner[u] /\ lease'[u] = lease[u]
    BY <1>3 DEF ReviewWrite, SharedInv, TypeOK
  <2> QED BY <2>2, <2>3, <2>4 DEF Benign, GatewayInv, LeasesIssued
<1>4. ASSUME NEW c \in Clients, StaleWrite(c) PROVE Benign
  BY <1>4, ChargeBenign DEF StaleWrite, SharedInv, CallInv, CallOK
<1>5. ASSUME NEW c \in Clients,
             \/ \E t \in Tasks : ReviewRead(c, t) \/ StaleRead(c, t)
             \/ \E d \in Lags : StaleSelect(c, d)
             \/ Crash(c)
      PROVE  Benign
  BY <1>5, UnchangedBenign DEF ReviewRead, StaleRead, StaleSelect, Crash, taskVars
<1> QED BY <1>1, <1>2, <1>3, <1>4, <1>5 DEF OtherConnection
-----------------------------------------------------------------------------
(* The call in progress, when the step does not touch the rows of a dispatch. *)

LEMMA NoCallTrue ==
  ASSUME call' = NoCall
  PROVE  CallTrue'
  BY DEF CallTrue, NoCall, InCall

\* A statement that only reads, or whose effect is on the session alone.
LEMMA EarlyCallTrue ==
  ASSUME UNCHANGED <<DispatchRows, revoked>>, call'.step \in {"disown", "record", "advance", "apply"},
         call'.kind \in {"ACK", "RESULT"} =>
           /\ call'.disp \in entered /\ (call'.kind = "RESULT" => call'.disp \in acked)
           /\ call'.disp[2] = call'.worker /\ call'.worker \notin revoked
           /\ sess'[call'.worker].st = "AUTHENTICATED"
  PROVE  CallTrue'
  BY DEF CallTrue, DispatchRows

\* Every action but those of the call's last two statements leaves the rows of a
\* dispatch true, for the store step in it is Benign.
RowsTrue == LeasesIssued /\ DispatchRowsTrue /\ OneDispatchPerLease /\ EvidenceFromAcker

LEMMA RoutineSteps ==
  ASSUME SharedInv, GatewayInv,
         GTick \/ OtherConnection \/ SessionStep \/ FrameStep \/ RouteStep \/ Restart
  PROVE  RowsTrue' /\ CallTrue'
<1> USE DEF RowsTrue
<1>2. CASE GTick
  BY <1>2, UnchangedBenign, BenignRows, BenignCall DEF GTick, Tick, DispatchRows
<1>3. CASE OtherConnection
  BY <1>3, OthersBenign, BenignRows, BenignCall DEF OtherConnection, gateVars, DispatchRows
<1>4. CASE SessionStep
  <2>1. ASSUME NEW w \in Workers, RevokeProfile(w) PROVE RowsTrue' /\ CallTrue'
    <3>1. Benign
      BY <2>1, UnchangedBenign DEF RevokeProfile, vars
    <3>2. CallTrue'
      BY <2>1 DEF RevokeProfile, InCall, CallTrue
    <3> QED BY <2>1, <3>1, <3>2, BenignRows DEF RevokeProfile, DispatchRows
  <2>2. call.kind = "NONE" \/ ~Idling
    BY DEF Idling, NoCall, InCall
  <2>3. ASSUME NEW w \in Workers, NEW k \in Challenges, IssueChallenge(w, k)
        PROVE  RowsTrue' /\ CallTrue'
    BY <2>2, <2>3, UnchangedBenign, BenignRows, BenignCall DEF IssueChallenge, DispatchRows, vars
  <2>4. ASSUME NEW w \in Workers, NEW k \in Challenges, NEW s, NEW c, NEW d, Authenticate(w, s, k, c, d)
        PROVE  RowsTrue' /\ CallTrue'
    BY <2>2, <2>4, UnchangedBenign, BenignRows, BenignCall
    DEF Authenticate, RegisterWorker, taskVars, DispatchRows
  <2> QED BY <1>4, <2>1, <2>3, <2>4 DEF SessionStep
<1>5. CASE FrameStep
  <2>1. ASSUME NEW w, NEW m, NEW q, NEW o, NEW k, NEW d, HeartbeatFrame(w, m, q, o, k, d)
        PROVE  RowsTrue' /\ CallTrue'
    <3>1. Benign
      BY <2>1, UnchangedBenign DEF HeartbeatFrame, Heartbeat, taskVars
    <3>2. CallTrue'
      BY <2>1 DEF HeartbeatFrame, InCall, CallTrue
    <3> QED BY <2>1, <3>1, <3>2, BenignRows DEF HeartbeatFrame, DispatchRows
  <2>2. ASSUME NEW w \in Workers, NEW m, NEW q, NEW i \in entered, NEW d,
               AckFrame(w, m, q, i) \/ ResultFrame(w, m, q, i, d)
        PROVE  RowsTrue' /\ CallTrue'
    <3>1. Benign /\ UNCHANGED DispatchRows /\ UNCHANGED <<revoked, sess>>
      BY <2>2, UnchangedBenign DEF AckFrame, ResultFrame, vars, DispatchRows
    <3>2. CallTrue'
      BY <2>2, <3>1, EarlyCallTrue DEF AckFrame, ResultFrame, Accepts, Bound, InCall
    <3> QED BY <3>1, <3>2, BenignRows
  <2> QED BY <1>5, <2>1, <2>2 DEF FrameStep
<1>6. CASE RouteStep
  <2>1. ASSUME NEW t \in Tasks, NEW d, RouteNobody(t, d) PROVE RowsTrue' /\ CallTrue'
    <3>1. Benign
      BY <2>1, MoveBenign DEF RouteNobody, MarkWaitingCapacity, Schedulable, Leaseable, InProgress
    <3> QED BY <2>1, <3>1, BenignRows, BenignCall DEF RouteNobody, gateVars, DispatchRows
  <2>2. ASSUME NEW t \in Tasks, NEW w \in Workers, NEW d \in Lags, Route(t, w, d)
        PROVE  RowsTrue' /\ CallTrue'
    <3> DEFINE i == <<t, w, sess[w].id, granted[t] + 1>>
    <3>1. Benign /\ granted'[t] = granted[t] + 1 /\ granted[t] \in Nat
      BY <2>2, ClaimBenign DEF Route, Claim, TakeLease, SharedInv, TypeOK
    <3>2. i \in Dispatches /\ TaskOf(i) = t /\ LeaseOf(i) = granted[t] + 1
      <4>1. sess[w].id \in Sessions \cup {NoSession} /\ sess[w].st = "AUTHENTICATED"
        BY <2>2 DEF Route, Eligible, Connected, GatewayInv, GTypeOK
      <4>2. sess[w].id \in Sessions
        BY <4>1 DEF GatewayInv, NamedSessions
      <4> QED BY <3>1, <4>2 DEF Dispatches, TaskOf, LeaseOf
    <3>3. \A j \in spooled : ~(TaskOf(j) = t /\ LeaseOf(j) = granted[t] + 1)
      BY <3>1 DEF GatewayInv, LeasesIssued
    <3>4. CallTrue'
      BY <2>2, <3>1, <3>2, <3>3 DEF Route, InCall, CallTrue
    <3> QED BY <2>2, <3>1, <3>4, BenignRows DEF Route, DispatchRows
  <2> QED BY <1>6, <2>1, <2>2 DEF RouteStep
<1>7. CASE Restart
  BY <1>7, UnchangedBenign, BenignRows, NoCallTrue DEF Restart, End, vars, DispatchRows
<1> QED BY <1>2, <1>3, <1>4, <1>5, <1>6, <1>7
-----------------------------------------------------------------------------
(* The statements of a call. *)

LEMMA CallSteps ==
  ASSUME SharedInv, GatewayInv, CallProgress
  PROVE  RowsTrue' /\ CallTrue'
<1> USE DEF RowsTrue
<1> DEFINE i == call.disp
           t == TaskOf(i)
<1>0. \A j \in Dispatches : TaskOf(j) \in Tasks /\ LeaseOf(j) \in Nat
  BY DEF Dispatches, TaskOf, LeaseOf
<1>1. /\ call.kind \in {"ACK", "RESULT"} => i \in entered
      /\ received \subseteq acked /\ acked \subseteq entered /\ entered \subseteq spooled
      /\ spooled \subseteq Dispatches
  BY DEF GatewayInv, CallTrue, DispatchRowsTrue, GTypeOK
<1>2. ASSUME UNCHANGED <<vars, DispatchRows>> PROVE RowsTrue'
  <2>1. Benign
    BY <1>2, UnchangedBenign DEF vars
  <2> QED BY <1>2, <2>1, BenignRows
<1>3. call \in [step : Steps, kind : Kinds, worker : Workers \cup {NoWorker},
                msg : Messages \cup {NoMessage}, seq : Nat,
                disp : Dispatches \cup {NoDispatch}, cap : Capacities \cup {0}]
  BY DEF GatewayInv, GTypeOK
<1>4. CASE RecordMessage \/ AdvanceSession \/ Refused \/ RevokeSession
  <2>1. UNCHANGED <<vars, DispatchRows, revoked>>
    BY <1>4 DEF RecordMessage, AdvanceSession, Refused, RevokeSession, vars, DispatchRows
  <2>2. CASE End
    BY <1>2, <2>1, <2>2, NoCallTrue DEF End
  <2>3. CASE RecordMessage
    BY <1>2, <1>3, <2>1, <2>3, EarlyCallTrue DEF RecordMessage, Goto, GatewayInv, CallTrue
  <2>4. ASSUME AdvanceSession, ~End PROVE RowsTrue' /\ CallTrue'
    <3>1. /\ call'.step = "apply" /\ call'.kind = call.kind /\ call'.disp = call.disp
          /\ call'.worker = call.worker
          /\ sess' = [sess EXCEPT ![call.worker].seq = call.seq]
      BY <1>3, <2>4 DEF AdvanceSession, Goto
    <3>2. call.kind \in {"ACK", "RESULT"} => sess'[call.worker].st = "AUTHENTICATED"
      BY <3>1, <1>0, <1>1 DEF GatewayInv, CallTrue, GTypeOK, Dispatches
    <3> QED BY <1>2, <2>1, <3>1, <3>2, EarlyCallTrue DEF GatewayInv, CallTrue
  <2> QED BY <1>4, <2>2, <2>3, <2>4 DEF Refused, RevokeSession
<1>5. ASSUME NEW d \in Lags, ApplyAck(d) PROVE RowsTrue' /\ CallTrue'
  <2>1. /\ t \in Tasks /\ i \in entered /\ state[t] = "LEASED" /\ HeldAs(i)
        /\ state' = [state EXCEPT ![t] = "RUNNING"] /\ UNCHANGED <<owner, lease, granted>>
        /\ UNCHANGED DispatchRows /\ UNCHANGED <<revoked, sess>>
    BY <1>0, <1>1, <1>5 DEF ApplyAck, Start, DispatchRows
  <2>2. state'[t] = "RUNNING" /\ \A u \in Tasks \ {t} : state'[u] = state[u]
    BY <2>1 DEF SharedInv, TypeOK
  <2>3. \A j \in spooled : TaskOf(j) = t /\ HeldAs(j) => j = i
    BY <1>1, <2>1 DEF GatewayInv, OneDispatchPerLease, HeldAs
  <2>4. i \notin acked
    BY <2>1 DEF GatewayInv, DispatchRowsTrue
  <2>5. LeasesIssued' /\ OneDispatchPerLease'
    BY <2>1 DEF GatewayInv, LeasesIssued, OneDispatchPerLease, DispatchRows
  <2>6. DispatchRowsTrue'
    <3>1. \A j \in acked : HeldAs(j) => TaskOf(j) \in Tasks \ {t}
      BY <1>0, <1>1, <2>3, <2>4
    <3>2. \A j \in acked : HeldAs(j)' = HeldAs(j)
      BY <2>1 DEF HeldAs
    <3> QED BY <1>1, <2>1, <2>2, <3>1, <3>2 DEF GatewayInv, DispatchRowsTrue, DispatchRows
  <2>7. EvidenceFromAcker'
    BY <2>1, <2>2 DEF GatewayInv, EvidenceFromAcker, HeldAs, DispatchRows
  <2>8. call'.step = "mark" /\ call'.kind = "ACK" /\ call'.disp = i /\ call'.worker = call.worker
    BY <1>3, <1>5 DEF ApplyAck, Goto
  <2>9. CallTrue'
    BY <2>1, <2>2, <2>8, <1>5 DEF ApplyAck, GatewayInv, CallTrue, DispatchRows
  <2> QED BY <2>5, <2>6, <2>7, <2>9
<1>6. ASSUME NEW d \in Lags, NEW e \in Evidence, ApplyResult(e, d) PROVE RowsTrue' /\ CallTrue'
  <2>1. /\ t \in Tasks /\ i \in entered /\ i \in acked /\ HeldAs(i)
        /\ state' = [state EXCEPT ![t] = "REVIEW_PENDING"] /\ UNCHANGED <<owner, lease, granted>>
        /\ UNCHANGED DispatchRows /\ UNCHANGED <<revoked, sess>>
    BY <1>0, <1>1, <1>6 DEF ApplyResult, SubmitResult, DispatchRows, GatewayInv, CallTrue
  <2>2. state'[t] = "REVIEW_PENDING" /\ \A u \in Tasks \ {t} : state'[u] = state[u]
    BY <2>1 DEF SharedInv, TypeOK
  <2>3. LeasesIssued' /\ OneDispatchPerLease'
    BY <2>1 DEF GatewayInv, LeasesIssued, OneDispatchPerLease, DispatchRows
  <2>4. \A j \in acked : HeldAs(j)' = HeldAs(j) /\ TaskOf(j) \in Tasks
    BY <1>0, <1>1, <2>1 DEF HeldAs
  <2>5. DispatchRowsTrue'
    BY <1>1, <2>1, <2>2, <2>4 DEF GatewayInv, DispatchRowsTrue, DispatchRows
  <2>6. EvidenceFromAcker'
    BY <2>1, <2>2 DEF GatewayInv, EvidenceFromAcker, HeldAs, DispatchRows
  <2>7. call'.step = "mark" /\ call'.kind = "RESULT" /\ call'.disp = i /\ call'.worker = call.worker
    BY <1>3, <1>6 DEF ApplyResult, Goto
  <2>8. CallTrue'
    BY <2>1, <2>2, <2>7, <1>6 DEF ApplyResult, GatewayInv, CallTrue, DispatchRows
  <2> QED BY <2>3, <2>5, <2>6, <2>8
<1>7. CASE MarkAck
  <2>1. /\ UNCHANGED <<state, owner, lease, granted, spooled, entered, received>>
        /\ acked' = acked \cup {i} /\ i \in entered /\ call.step = "mark" /\ call.kind = "ACK"
    BY <1>1, <1>7 DEF MarkAck, vars
  <2>2. DispatchRowsTrue'
    BY <2>1 DEF GatewayInv, CallTrue, DispatchRowsTrue, HeldAs
  <2>3. EvidenceFromAcker'
    BY <2>1 DEF GatewayInv, EvidenceFromAcker, HeldAs
  <2>4. LeasesIssued' /\ OneDispatchPerLease'
    BY <2>1 DEF GatewayInv, LeasesIssued, OneDispatchPerLease
  <2> QED BY <1>7, <2>2, <2>3, <2>4, NoCallTrue DEF MarkAck, End
<1>8. CASE MarkResult
  <2>1. /\ UNCHANGED <<state, owner, lease, granted, spooled, entered, acked>>
        /\ received' = received \cup {i} /\ i \in acked /\ call.step = "mark" /\ call.kind = "RESULT"
    BY <1>8 DEF MarkResult, vars, GatewayInv, CallTrue
  <2>2. DispatchRowsTrue'
    BY <2>1 DEF GatewayInv, CallTrue, DispatchRowsTrue, HeldAs
  <2>3. EvidenceFromAcker' /\ LeasesIssued' /\ OneDispatchPerLease'
    BY <2>1 DEF GatewayInv, EvidenceFromAcker, HeldAs, LeasesIssued, OneDispatchPerLease
  <2> QED BY <1>8, <2>2, <2>3, NoCallTrue DEF MarkResult, End
<1>9. ASSUME NEW d \in Lags, SpoolDispatch(d) PROVE RowsTrue' /\ CallTrue'
  <2>1. /\ UNCHANGED <<state, owner, lease, granted, entered, acked, received>>
        /\ spooled' = spooled \cup {i} /\ i \in Dispatches
        /\ LeaseOf(i) > 0 /\ LeaseOf(i) <= granted[TaskOf(i)]
        /\ \A j \in spooled : ~(TaskOf(j) = TaskOf(i) /\ LeaseOf(j) = LeaseOf(i))
    BY <1>9 DEF SpoolDispatch, vars, GatewayInv, CallTrue
  <2>2. LeasesIssued' /\ OneDispatchPerLease'
    BY <2>1 DEF GatewayInv, LeasesIssued, OneDispatchPerLease
  <2>3. DispatchRowsTrue' /\ EvidenceFromAcker'
    BY <2>1 DEF GatewayInv, DispatchRowsTrue, EvidenceFromAcker, HeldAs
  <2>4. call'.step = "enter" /\ call'.disp = i /\ call'.kind = call.kind /\ call'.worker = call.worker
    BY <1>3, <1>9 DEF SpoolDispatch, Goto
  <2> QED BY <1>9, <2>1, <2>2, <2>3, <2>4 DEF SpoolDispatch, GatewayInv, CallTrue
<1>10. CASE EnterDispatch
  <2>1. /\ UNCHANGED <<state, owner, lease, granted, spooled, acked, received>>
        /\ entered' = entered \cup {i} /\ i \in spooled
    BY <1>10 DEF EnterDispatch, vars, GatewayInv, CallTrue
  <2>2. RowsTrue'
    BY <2>1 DEF GatewayInv, LeasesIssued, OneDispatchPerLease, DispatchRowsTrue, EvidenceFromAcker, HeldAs
  <2> QED BY <1>10, <2>2, NoCallTrue DEF EnterDispatch, End
<1> QED BY <1>4, <1>5, <1>6, <1>7, <1>8, <1>9, <1>10 DEF CallProgress
-----------------------------------------------------------------------------
(* Types. *)

CallRecords == [step : Steps, kind : Kinds, worker : Workers \cup {NoWorker},
                msg : Messages \cup {NoMessage}, seq : Nat,
                disp : Dispatches \cup {NoDispatch}, cap : Capacities \cup {0}]

LEMMA CallTyped ==
  ASSUME SharedInv, GatewayInv, GNext
  PROVE  call' \in CallRecords
<1>1. call \in CallRecords
  BY DEF GatewayInv, GTypeOK, CallRecords
<1>2. NoCall \in CallRecords
  BY DEF NoCall, InCall, CallRecords, Steps, Kinds
<1>3. ASSUME NEW step \in Steps, Goto(step) PROVE call' \in CallRecords
  BY <1>1, <1>3 DEF Goto, CallRecords
<1>4. CASE UNCHANGED call
  BY <1>1, <1>4
<1>5. CASE CallProgress
  BY <1>2, <1>3, <1>5 DEF CallProgress, RecordMessage, AdvanceSession, Refused, MarkAck, MarkResult,
     RevokeSession, EnterDispatch, ApplyAck, SpoolDispatch, ApplyResult, End, Steps
<1>6. CASE Restart
  BY <1>2, <1>6 DEF Restart, End
<1>7. CASE SessionStep
  BY <1>4, <1>7 DEF SessionStep, RevokeProfile, IssueChallenge, Authenticate, InCall, CallRecords,
     Steps, Kinds
<1>8. CASE FrameStep
  <2>1. MaxSeq \in Nat /\ entered \subseteq Dispatches
    BY GatewayConstants DEF GatewayInv, GTypeOK
  <2>2. \A q \in 1..MaxSeq : q \in Nat
    BY <2>1
  <2> QED BY <1>8, <2>1, <2>2 DEF FrameStep, HeartbeatFrame, AckFrame, ResultFrame, InCall,
         CallRecords, Steps, Kinds
<1>9. ASSUME NEW t \in Tasks, NEW w \in Workers, NEW d, Route(t, w, d) PROVE call' \in CallRecords
  <2>1. sess[w].id \in Sessions /\ granted[t] + 1 \in Nat
    BY <1>9 DEF Route, Eligible, Connected, GatewayInv, NamedSessions, SharedInv, TypeOK
  <2> QED BY <1>9, <2>1 DEF Route, InCall, CallRecords, Steps, Kinds, Dispatches
<1>10. CASE RouteStep
  BY <1>4, <1>9, <1>10 DEF RouteStep, RouteNobody, gateVars
<1> QED BY <1>4, <1>5, <1>6, <1>7, <1>8, <1>10 DEF GNext, GTick, OtherConnection, gateVars

SessionRows == [id : Sessions \cup {NoSession},
                st : {"NONE", "AUTHENTICATED", "REAUTH_REQUIRED", "REVOKED"},
                seq : Nat, cap : Capacities \cup {0}]

LEMMA SessionsTyped ==
  ASSUME SharedInv, GatewayInv, GNext
  PROVE  sess' \in [Workers -> SessionRows] /\ NamedSessions'
<1>1. /\ sess \in [Workers -> SessionRows] /\ NamedSessions
      /\ call.seq \in Nat /\ call.cap \in Capacities \cup {0}
  BY DEF GatewayInv, GTypeOK, SessionRows
<1>2. ASSUME UNCHANGED sess PROVE sess' \in [Workers -> SessionRows] /\ NamedSessions'
  BY <1>1, <1>2 DEF NamedSessions
<1>3. ASSUME NEW w \in Workers, NEW s \in Sessions, NEW k, NEW c \in Capacities, NEW d,
             Authenticate(w, s, k, c, d)
      PROVE  sess' \in [Workers -> SessionRows] /\ NamedSessions'
  BY <1>1, <1>3 DEF Authenticate, Session, NoRow, SessionRows, NamedSessions
<1>4. CASE SessionStep
  BY <1>2, <1>3, <1>4 DEF SessionStep, RevokeProfile, IssueChallenge
<1>5. CASE AdvanceSession
  BY <1>1, <1>5 DEF AdvanceSession, SessionRows, NamedSessions
<1>6. CASE RevokeSession
  BY <1>1, <1>6 DEF RevokeSession, SessionRows, NamedSessions
<1>7. CASE Restart
  BY <1>1, <1>7 DEF Restart, SessionRows, NamedSessions
<1>8. CASE CallProgress
  BY <1>2, <1>5, <1>6, <1>8 DEF CallProgress, RecordMessage, Refused, MarkAck, MarkResult,
     EnterDispatch, ApplyAck, SpoolDispatch, ApplyResult
<1>9. CASE GTick \/ OtherConnection
  BY <1>2, <1>9 DEF GTick, OtherConnection, gateVars
<1>10. CASE FrameStep
  BY <1>2, <1>10 DEF FrameStep, HeartbeatFrame, AckFrame, ResultFrame
<1>11. CASE RouteStep
  BY <1>2, <1>11 DEF RouteStep, Route, RouteNobody, gateVars
<1> QED BY <1>4, <1>7, <1>8, <1>9, <1>10, <1>11 DEF GNext

ChallengeRows == [worker : Workers \cup {NoWorker}, left : Int,
                  st : {"absent", "issued", "consumed"}]

LEMMA RestTyped ==
  ASSUME SharedInv, GatewayInv, GNext
  PROVE  /\ seen' \in [Workers -> Int] /\ revoked' \subseteq Workers
         /\ challenge' \in [Challenges -> ChallengeRows] /\ messages' \subseteq Messages
         /\ spooled' \subseteq Dispatches /\ entered' \subseteq Dispatches
         /\ acked' \subseteq Dispatches /\ received' \subseteq Dispatches
<1> DEFINE Rest == <<seen, revoked, challenge, messages, spooled, entered, acked, received>>
           Goal == /\ seen' \in [Workers -> Int] /\ revoked' \subseteq Workers
                   /\ challenge' \in [Challenges -> ChallengeRows] /\ messages' \subseteq Messages
                   /\ spooled' \subseteq Dispatches /\ entered' \subseteq Dispatches
                   /\ acked' \subseteq Dispatches /\ received' \subseteq Dispatches
<1>1. /\ seen \in [Workers -> Int] /\ revoked \subseteq Workers
      /\ challenge \in [Challenges -> ChallengeRows] /\ messages \subseteq Messages
      /\ spooled \subseteq Dispatches /\ entered \subseteq Dispatches
      /\ acked \subseteq Dispatches /\ received \subseteq Dispatches
      /\ age \in [Workers -> Int]
  BY DEF GatewayInv, GTypeOK, ChallengeRows, SharedInv, TypeOK
<1>2. CASE UNCHANGED Rest
  BY <1>1, <1>2
<1>3. CASE GTick
  BY <1>1, <1>3, GatewayConstants DEF GTick, ChallengeRows
<1>4. CASE SessionStep
  BY <1>1, <1>4, GatewayConstants, StoreConstants
  DEF SessionStep, RevokeProfile, IssueChallenge, Authenticate, ChallengeRows, Lags
<1>5. CASE RecordMessage
  <2>1. call.msg \in Messages
    BY <1>5 DEF RecordMessage, GatewayInv, NamedMessage
  <2> QED BY <1>1, <1>5, <2>1 DEF RecordMessage
<1>6. CASE AdvanceSession
  BY <1>1, <1>6 DEF AdvanceSession
<1>7. CASE MarkAck \/ MarkResult \/ EnterDispatch
  BY <1>1, <1>7 DEF MarkAck, MarkResult, EnterDispatch, GatewayInv, CallTrue, DispatchRowsTrue
<1>8. ASSUME NEW d, SpoolDispatch(d) PROVE Goal
  BY <1>1, <1>8 DEF SpoolDispatch, GatewayInv, CallTrue
<1>9. CASE CallProgress
  BY <1>2, <1>5, <1>6, <1>7, <1>8, <1>9 DEF CallProgress, Refused, RevokeSession, ApplyAck, ApplyResult
<1>10. CASE OtherConnection \/ Restart
  BY <1>2, <1>10 DEF OtherConnection, Restart, gateVars
<1>11. CASE FrameStep
  BY <1>2, <1>11 DEF FrameStep, HeartbeatFrame, AckFrame, ResultFrame
<1>12. CASE RouteStep
  BY <1>2, <1>12 DEF RouteStep, Route, RouteNobody, gateVars
<1> QED BY <1>3, <1>4, <1>9, <1>10, <1>11, <1>12 DEF GNext

LEMMA NamesKept ==
  ASSUME SharedInv, GatewayInv, GNext
  PROVE  NamedMessage'
<1>1. CASE UNCHANGED call
  BY <1>1 DEF NamedMessage, GatewayInv
<1>2. CASE CallProgress
  BY <1>2 DEF CallProgress, RecordMessage, AdvanceSession, Refused, MarkAck, MarkResult, RevokeSession,
     EnterDispatch, ApplyAck, SpoolDispatch, ApplyResult, Goto, End, NoCall, InCall, NamedMessage,
     GatewayInv, GTypeOK
<1>3. CASE SessionStep
  BY <1>1, <1>3 DEF SessionStep, RevokeProfile, IssueChallenge, Authenticate, InCall, NamedMessage
<1>4. CASE FrameStep
  BY <1>4 DEF FrameStep, HeartbeatFrame, AckFrame, ResultFrame, InCall, NamedMessage
<1>5. CASE RouteStep
  BY <1>1, <1>5 DEF RouteStep, Route, RouteNobody, InCall, NamedMessage, gateVars
<1>6. CASE Restart
  BY <1>6 DEF Restart, End, NoCall, InCall, NamedMessage
<1> QED BY <1>1, <1>2, <1>3, <1>4, <1>5, <1>6 DEF GNext, GTick, OtherConnection, gateVars
-----------------------------------------------------------------------------
(* Theorems. *)

LEMMA GatewayStep == SharedInv /\ GatewayInv /\ [GNext]_gvars => SharedInv' /\ GatewayInv'
<1>1. ASSUME SharedInv, GatewayInv, GNext PROVE SharedInv' /\ GatewayInv'
  <2>1. SharedInv'
    BY <1>1, GatewayStepOfStore, SharedStep
  <2>2. RowsTrue' /\ CallTrue'
    BY <1>1, RoutineSteps, CallSteps DEF GNext
  <2>3. GTypeOK'
    BY <1>1, CallTyped, SessionsTyped, RestTyped
    DEF GTypeOK, CallRecords, SessionRows, ChallengeRows
  <2> QED BY <1>1, <2>1, <2>2, <2>3, SessionsTyped, NamesKept DEF GatewayInv, RowsTrue
<1>2. ASSUME SharedInv, GatewayInv, UNCHANGED gvars PROVE SharedInv' /\ GatewayInv'
  <2>1. SharedInv'
    BY <1>2, SharedStep DEF gvars
  <2>2. RowsTrue'
    BY <1>2, UnchangedBenign, BenignRows DEF gvars, gateVars, vars, DispatchRows, RowsTrue
  <2>3. GTypeOK' /\ NamedSessions' /\ NamedMessage' /\ CallTrue'
    BY <1>2 DEF gvars, gateVars, vars, GatewayInv, GTypeOK, NamedSessions, NamedMessage, CallTrue, HeldAs
  <2> QED BY <2>1, <2>2, <2>3 DEF GatewayInv, RowsTrue
<1> QED BY <1>1, <1>2

\* Behind the gateway the store keeps every invariant of its own, and the rows of
\* a dispatch, with the call in progress, keep theirs.
THEOREM GatewayInvariance == GSpec => [](SharedInv /\ GatewayInv)
<1>1. GInit => SharedInv /\ GatewayInv
  BY InitShared, InitGateway DEF GInit
<1> QED BY <1>1, GatewayStep, PTL DEF GSpec

\* The gateway implements the store: whatever calls, frames and restarts it makes,
\* the tasks and workers go through steps of TaskStore only.
THEOREM GatewayUsesStore == GSpec => Spec
<1>1. GInit => Init
  BY DEF GInit
<1>2. GatewayInv /\ [GNext]_gvars => [Next]_vars
  BY GatewayStepOfStore DEF gvars
<1> QED BY <1>1, <1>2, GatewayInvariance, PTL DEF GSpec, Spec

\* acknowledged = 1 and result_received = 1 are true of the task at every commit.
THEOREM RowsStayTrue == GSpec => []DispatchRowsTrue
  BY GatewayInvariance, PTL DEF GatewayInv

\* No lease is ever dispatched twice, also across restarts and re-authentication.
THEOREM LeaseDispatchedOnce == GSpec => []OneDispatchPerLease
  BY GatewayInvariance, PTL DEF GatewayInv

\* What is under review was delivered by the session that acknowledged it.
THEOREM ReviewedWorkWasAcked == GSpec => []EvidenceFromAcker
  BY GatewayInvariance, PTL DEF GatewayInv

\* Revocation and restart take effect between any two messages, a revocation also
\* when its second statement failed and left the session AUTHENTICATED.
THEOREM TrustGuardsWork == GSpec => OnlyTrustedAct
<1>1. SharedInv /\ GatewayInv /\ [GNext]_gvars =>
        [\A t \in Tasks : Acts(t) => owner[t] \notin revoked /\ sess[owner[t]].st = "AUTHENTICATED"]_gvars
  <2> SUFFICES ASSUME SharedInv, GatewayInv, GNext, NEW t \in Tasks, Acts(t)
               PROVE  owner[t] \notin revoked /\ sess[owner[t]].st = "AUTHENTICATED"
    OBVIOUS
  <2>1. ASSUME NEW d \in Lags, ApplyAck(d) \/ \E e \in Evidence : ApplyResult(e, d)
        PROVE  owner[t] \notin revoked /\ sess[owner[t]].st = "AUTHENTICATED"
    <3>1. TaskOf(call.disp) = t
      BY <2>1 DEF ApplyAck, ApplyResult, Start, SubmitResult, Acts, SharedInv, TypeOK
    <3> QED BY <2>1, <3>1 DEF ApplyAck, ApplyResult, HeldAs, GatewayInv, CallTrue
  <2>2. CASE UNCHANGED <<state, rows>>
    BY <2>2 DEF Acts
  <2>3. CASE CallProgress
    BY <2>1, <2>2, <2>3 DEF CallProgress, RecordMessage, AdvanceSession, Refused, MarkAck, MarkResult,
       RevokeSession, EnterDispatch, SpoolDispatch, vars
  <2>4. CASE RouteStep
    BY <2>4 DEF RouteStep, Route, RouteNobody, Claim, TakeLease, MarkWaitingCapacity, Acts,
       SharedInv, TypeOK
  <2>5. CASE OtherConnection
    BY <2>5 DEF OtherConnection, CreateTask, ReclaimExpired, Charge, ChargeTo, ReviewRead, StaleRead,
       StaleSelect, ReviewWrite, StaleWrite, Crash, taskVars, Acts, SharedInv, TypeOK
  <2>6. CASE GTick \/ SessionStep \/ FrameStep \/ Restart
    BY <2>2, <2>6 DEF GTick, Tick, SessionStep, RevokeProfile, IssueChallenge, Authenticate,
       RegisterWorker, FrameStep, HeartbeatFrame, Heartbeat, AckFrame, ResultFrame, Restart, taskVars, vars
  <2> QED BY <2>3, <2>4, <2>5, <2>6 DEF GNext
<1> QED BY <1>1, GatewayInvariance, PTL DEF GSpec, OnlyTrustedAct

\* A live session is only lost to its own worker's revocation or to a worker that
\* was handed the same session id.
THEOREM LiveSessionsStay == GSpec => SessionKept
<1>1. GatewayInv /\ [GNext]_gvars =>
        [\A w \in Workers : Connected(w, 0) /\ sess'[w].id # sess[w].id =>
           \E v \in Workers \ {w} : sess'[v].id = sess[w].id]_gvars
  <2> SUFFICES ASSUME GatewayInv, GNext, NEW w \in Workers, Connected(w, 0), sess'[w].id # sess[w].id
               PROVE  \E v \in Workers \ {w} : sess'[v].id = sess[w].id
    OBVIOUS
  <2>1. sess \in [Workers -> SessionRows] /\ seen \in [Workers -> Int]
    BY DEF GatewayInv, GTypeOK, SessionRows
  <2>2. ASSUME NEW v \in Workers, NEW s \in Sessions, NEW k, NEW c, NEW d \in Lags,
               Authenticate(v, s, k, c, d)
        PROVE  \E x \in Workers \ {w} : sess'[x].id = sess[w].id
    <3>1. d \in Nat /\ Sla \in Nat
      BY StoreConstants DEF Lags
    <3>2. v # w
      BY <2>1, <2>2, <3>1 DEF Authenticate, MayTake, Connected, Session
    <3>3. sess[w].id = s
      BY <2>1, <2>2, <3>2 DEF Authenticate
    <3> QED BY <2>1, <2>2, <3>2, <3>3 DEF Authenticate, Session
  <2>3. CASE UNCHANGED sess
    BY <2>3
  <2>4. CASE SessionStep
    BY <2>2, <2>3, <2>4 DEF SessionStep, RevokeProfile, IssueChallenge
  <2>5. CASE AdvanceSession \/ RevokeSession \/ Restart
    BY <2>1, <2>5 DEF AdvanceSession, RevokeSession, Restart, SessionRows
  <2>6. CASE CallProgress
    BY <2>3, <2>5, <2>6 DEF CallProgress, RecordMessage, Refused, MarkAck, MarkResult,
       EnterDispatch, ApplyAck, SpoolDispatch, ApplyResult
  <2>7. CASE GTick \/ OtherConnection
    BY <2>3, <2>7 DEF GTick, OtherConnection, gateVars
  <2>8. CASE FrameStep
    BY <2>3, <2>8 DEF FrameStep, HeartbeatFrame, AckFrame, ResultFrame
  <2>9. CASE RouteStep
    BY <2>3, <2>9 DEF RouteStep, Route, RouteNobody, gateVars
  <2> QED BY <2>4, <2>5, <2>6, <2>7, <2>8, <2>9 DEF GNext
<1> QED BY <1>1, GatewayInvariance, PTL DEF GSpec, SessionKept
=============================================================================
