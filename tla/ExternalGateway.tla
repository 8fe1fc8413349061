-------------------------- MODULE ExternalGateway --------------------------
(***************************************************************************)
(* The authenticated external gateway of external_gateway.py (AF-05), with *)
(* the router that claims for it, over the store of module TaskStore.      *)
(*                                                                         *)
(* One gateway process serves one call at a time; every statement of a     *)
(* call commits by itself, so between any two the process may die, the     *)
(* clock may tick and other connections may reclaim, reconcile or review.  *)
(* A signed frame may be lost, late, repeated or out of order: a call is   *)
(* offered any frame that a worker's key can sign.                         *)
(***************************************************************************)
EXTENDS TaskStore

CONSTANTS
  Gate,            \* the gateway's own connection, one of Clients
  Sessions,        \* session ids, which the workers choose
  Challenges,      \* challenge ids
  Messages,        \* message ids
  MaxSeq,          \* bound: the largest sequence number of a frame
  ChallengeTerm,   \* challenge_ttl in ticks
  NoSession, NoMessage

ASSUME GatewayConstants ==
  /\ Gate \in Clients
  /\ MaxSeq \in Nat /\ ChallengeTerm \in Nat
  /\ NoSession \notin Sessions /\ NoMessage \notin Messages

VARIABLES
  sess,       \* af05_sessions: the row of each worker
  seen,       \* now - af05_sessions.last_heartbeat
  revoked,    \* workers whose af05_profiles.revoked is set
  challenge,  \* af05_challenges
  messages,   \* af05_messages: the ids accepted so far
  spooled,    \* dispatch frames in the outbound spool
  entered,    \* rows of af05_dispatches,
  acked,      \* those with acknowledged = 1,
  received,   \* those with result_received = 1
  call        \* the call in progress

gateVars == <<sess, seen, revoked, challenge, messages, spooled, entered, acked, received, call>>
gvars == <<vars, gateVars>>

\* A dispatch id is the digest of its task, worker, session and lease.
Dispatches == Tasks \X Workers \X Sessions \X Nat
TaskOf(i) == i[1]
LeaseOf(i) == i[4]

Steps == {"none", "record", "advance", "apply", "mark", "spool", "enter", "disown"}
Kinds == {"NONE", "HEARTBEAT", "ACK", "RESULT"}
InCall(step, kind, w, m, q, i, k) ==
  [step |-> step, kind |-> kind, worker |-> w, msg |-> m, seq |-> q, disp |-> i, cap |-> k]
NoDispatch == <<>>
NoCall == InCall("none", "NONE", NoWorker, NoMessage, 0, NoDispatch, 0)

NoRow == [id |-> NoSession, st |-> "NONE", seq |-> 0, cap |-> 0]
Session(s, k) == [id |-> s, st |-> "AUTHENTICATED", seq |-> 0, cap |-> k]

GTypeOK ==
  /\ sess \in [Workers -> [id : Sessions \cup {NoSession},
                           st : {"NONE", "AUTHENTICATED", "REAUTH_REQUIRED", "REVOKED"},
                           seq : Nat, cap : Capacities \cup {0}]]
  /\ seen \in [Workers -> Int]
  /\ revoked \subseteq Workers
  /\ challenge \in [Challenges -> [worker : Workers \cup {NoWorker}, left : Int,
                                   st : {"absent", "issued", "consumed"}]]
  /\ messages \subseteq Messages
  /\ spooled \subseteq Dispatches /\ entered \subseteq Dispatches
  /\ acked \subseteq Dispatches /\ received \subseteq Dispatches
  /\ call \in [step : Steps, kind : Kinds, worker : Workers \cup {NoWorker},
               msg : Messages \cup {NoMessage}, seq : Nat,
               disp : Dispatches \cup {NoDispatch}, cap : Capacities \cup {0}]

GInit ==
  /\ Init
  /\ sess = [w \in Workers |-> NoRow] /\ seen = [w \in Workers |-> 0]
  /\ revoked = {}
  /\ challenge = [k \in Challenges |-> [worker |-> NoWorker, left |-> 0, st |-> "absent"]]
  /\ messages = {} /\ spooled = {} /\ entered = {} /\ acked = {} /\ received = {}
  /\ call = NoCall
-----------------------------------------------------------------------------
(* Sessions. *)

Idling == call = NoCall
Goto(step) == call' = [call EXCEPT !.step = step]
End == call' = NoCall

IssueChallenge(w, k) ==
  /\ Idling /\ w \notin revoked /\ challenge[k].st = "absent"
  /\ challenge' = [challenge EXCEPT ![k] = [worker |-> w, left |-> ChallengeTerm, st |-> "issued"]]
  /\ UNCHANGED <<vars, sess, seen, revoked, messages, spooled, entered, acked, received, call>>

\* A session that is authenticated and heard of within the SLA, at a clock lagging d.
Connected(w, d) == sess[w].st = "AUTHENTICATED" /\ seen[w] - d <= Sla

\* Fault: a new session may push out a live one.
BadMayTake(w, s, d) == TRUE
MayTake(w, s, d) == sess[w].id # s => ~Connected(w, d)

\* One transaction.  session_id is UNIQUE and the insert is OR REPLACE, so it
\* also deletes the row of another worker that used the same session id.
Authenticate(w, s, k, c, d) ==
  /\ Idling /\ w \notin revoked
  /\ challenge[k].st = "issued" /\ challenge[k].worker = w /\ challenge[k].left > -d
  /\ MayTake(w, s, d)
  /\ challenge' = [challenge EXCEPT ![k].st = "consumed"]
  /\ sess' = [v \in Workers |-> CASE v = w -> Session(s, c)
                                  [] v # w /\ sess[v].id = s -> NoRow
                                  [] OTHER -> sess[v]]
  /\ seen' = [seen EXCEPT ![w] = d]
  /\ RegisterWorker(w, c, d)
  /\ UNCHANGED <<revoked, messages, spooled, entered, acked, received, call>>

RevokeProfile(w) ==
  /\ Idling
  /\ revoked' = revoked \cup {w}
  /\ call' = InCall("disown", "NONE", w, NoMessage, 0, NoDispatch, 0)
  /\ UNCHANGED <<vars, sess, seen, challenge, messages, spooled, entered, acked, received>>

RevokeSession ==
  /\ call.step = "disown"
  /\ sess' = [sess EXCEPT ![call.worker].st = IF @ = "NONE" THEN @ ELSE "REVOKED"]
  /\ End
  /\ UNCHANGED <<vars, seen, revoked, challenge, messages, spooled, entered, acked, received>>

\* The process dies and a new one is constructed over the same files.
Restart ==
  /\ sess' = [w \in Workers |-> IF sess[w].st = "AUTHENTICATED"
                                  THEN [sess[w] EXCEPT !.st = "REAUTH_REQUIRED"] ELSE sess[w]]
  /\ End
  /\ UNCHANGED <<vars, seen, revoked, challenge, messages, spooled, entered, acked, received>>
-----------------------------------------------------------------------------
(* Signed messages: check, record the id, advance the sequence, take effect. *)

\* Fault: the session's state alone is looked at, not the profile's.
BadAccepts(w, m, q) ==
  Idling /\ sess[w].st = "AUTHENTICATED" /\ q > sess[w].seq /\ m \notin messages
Accepts(w, m, q) ==
  /\ Idling /\ w \notin revoked /\ sess[w].st = "AUTHENTICATED"
  /\ q > sess[w].seq /\ m \notin messages

\* The store learns of a heartbeat before its message id is recorded.
HeartbeatFrame(w, m, q, o, k, d) ==
  /\ Accepts(w, m, q)
  /\ o < seen[w] /\ o - d <= Sla
  /\ Heartbeat(w, o, k, d)
  /\ call' = InCall("record", "HEARTBEAT", w, m, q, NoDispatch, k)
  /\ UNCHANGED <<sess, seen, revoked, challenge, messages, spooled, entered, acked, received>>

\* _bound: the frame names the session, worker, task and lease of the dispatch.
Bound(w, i) == i \in entered /\ i[2] = w /\ i[3] = sess[w].id

AckFrame(w, m, q, i) ==
  /\ Accepts(w, m, q) /\ Bound(w, i) /\ i \notin acked
  /\ call' = InCall("record", "ACK", w, m, q, i, 0)
  /\ UNCHANGED <<vars, sess, seen, revoked, challenge, messages, spooled, entered, acked, received>>

\* The dispatch row's copy of lease_expires_at is that of the lease while the
\* task has the lease, and not known here afterwards.
\* Fault: a result is taken without an acknowledgement.
BadResultFrame(w, m, q, i, d) ==
  /\ Accepts(w, m, q) /\ Bound(w, i) /\ i \notin received
  /\ lease[TaskOf(i)] = LeaseOf(i) => Live(TaskOf(i), d)
  /\ call' = InCall("record", "RESULT", w, m, q, i, 0)
  /\ UNCHANGED <<vars, sess, seen, revoked, challenge, messages, spooled, entered, acked, received>>
ResultFrame(w, m, q, i, d) ==
  /\ Accepts(w, m, q) /\ Bound(w, i) /\ i \in acked /\ i \notin received
  /\ lease[TaskOf(i)] = LeaseOf(i) => Live(TaskOf(i), d)
  /\ call' = InCall("record", "RESULT", w, m, q, i, 0)
  /\ UNCHANGED <<vars, sess, seen, revoked, challenge, messages, spooled, entered, acked, received>>

RecordMessage ==
  /\ call.step = "record"
  /\ messages' = messages \cup {call.msg}
  /\ Goto("advance")
  /\ UNCHANGED <<vars, sess, seen, revoked, challenge, spooled, entered, acked, received>>

AdvanceSession ==
  /\ call.step = "advance"
  /\ LET w == call.worker
     IN  IF call.kind = "HEARTBEAT"
           THEN /\ sess' = [sess EXCEPT ![w].seq = call.seq, ![w].cap = call.cap]
                /\ seen' = [seen EXCEPT ![w] = age[w]]
                /\ End
           ELSE /\ sess' = [sess EXCEPT ![w].seq = call.seq]
                /\ UNCHANGED seen
                /\ Goto("apply")
  /\ UNCHANGED <<vars, revoked, challenge, messages, spooled, entered, acked, received>>

\* The store still has the task as the dispatch's worker and lease left it.
HeldAs(i) == owner[TaskOf(i)] = i[2] /\ lease[TaskOf(i)] = LeaseOf(i)

ApplyAck(d) ==
  /\ call.step = "apply" /\ call.kind = "ACK"
  /\ HeldAs(call.disp) /\ Start(TaskOf(call.disp), d)
  /\ Goto("mark")
  /\ UNCHANGED <<sess, seen, revoked, challenge, messages, spooled, entered, acked, received>>

ApplyResult(e, d) ==
  /\ call.step = "apply" /\ call.kind = "RESULT"
  /\ HeldAs(call.disp) /\ SubmitResult(TaskOf(call.disp), e, d)
  /\ Goto("mark")
  /\ UNCHANGED <<sess, seen, revoked, challenge, messages, spooled, entered, acked, received>>

\* Fault: what the store raised is swallowed and the dispatch row is marked.
BadRefused ==
  /\ ~Idling
  /\ IF call.step = "apply" THEN Goto("mark") ELSE End
  /\ UNCHANGED <<vars, sess, seen, revoked, challenge, messages, spooled, entered, acked, received>>

\* Any statement of a call may raise, the second UPDATE of revoke too: the store
\* refuses, or the database is busy.  The process lives on.
Refused ==
  /\ ~Idling
  /\ End
  /\ UNCHANGED <<vars, sess, seen, revoked, challenge, messages, spooled, entered, acked, received>>

MarkAck ==
  /\ call.step = "mark" /\ call.kind = "ACK"
  /\ acked' = acked \cup {call.disp}
  /\ End
  /\ UNCHANGED <<vars, sess, seen, revoked, challenge, messages, spooled, entered, received>>

MarkResult ==
  /\ call.step = "mark" /\ call.kind = "RESULT"
  /\ received' = received \cup {call.disp}
  /\ End
  /\ UNCHANGED <<vars, sess, seen, revoked, challenge, messages, spooled, entered, acked>>
-----------------------------------------------------------------------------
(* Routing: claim for an eligible session, spool the frame, enter the row. *)

Least(a, b) == IF a <= b THEN a ELSE b

Eligible(t, w, d) ==
  /\ w \notin revoked /\ <<t, w>> \in Capable
  /\ Connected(w, d) /\ Fresh(w, d)
  /\ Cardinality(ActiveLeases(w, d)) < Least(capacity[w], sess[w].cap)

\* Fault: a task that is leased already is dispatched again, to the session its
\* worker has now.
BadRoute(t, w, d) ==
  /\ Idling /\ Connected(w, d)
  /\ \/ /\ Eligible(t, w, d) /\ Claim(t, w, d)
        /\ call' = InCall("spool", "NONE", w, NoMessage, 0, <<t, w, sess[w].id, granted[t] + 1>>, 0)
     \/ /\ state[t] = "LEASED" /\ owner[t] = w
        /\ call' = InCall("spool", "NONE", w, NoMessage, 0, <<t, w, sess[w].id, lease[t]>>, 0)
        /\ UNCHANGED vars
  /\ UNCHANGED <<sess, seen, revoked, challenge, messages, spooled, entered, acked, received>>
Route(t, w, d) ==
  /\ Idling /\ Eligible(t, w, d) /\ Claim(t, w, d)
  /\ call' = InCall("spool", "NONE", w, NoMessage, 0, <<t, w, sess[w].id, granted[t] + 1>>, 0)
  /\ UNCHANGED <<sess, seen, revoked, challenge, messages, spooled, entered, acked, received>>

RouteNobody(t, d) ==
  /\ Idling /\ \A w \in Workers : ~Eligible(t, w, d)
  /\ MarkWaitingCapacity(t)
  /\ UNCHANGED gateVars

SpoolDispatch(d) ==
  /\ call.step = "spool"
  /\ LET i == call.disp
     IN  /\ sess[i[2]].st = "AUTHENTICATED" /\ sess[i[2]].id = i[3]
         /\ state[TaskOf(i)] = "LEASED" /\ HeldAs(i) /\ Live(TaskOf(i), d)
         /\ spooled' = spooled \cup {i}
  /\ Goto("enter")
  /\ UNCHANGED <<vars, sess, seen, revoked, challenge, messages, entered, acked, received>>

EnterDispatch ==
  /\ call.step = "enter"
  /\ entered' = entered \cup {call.disp}
  /\ End
  /\ UNCHANGED <<vars, sess, seen, revoked, challenge, messages, spooled, acked, received>>
-----------------------------------------------------------------------------
(* The clock, and what other connections do to the store. *)

GTick ==
  /\ Tick
  /\ seen' = [w \in Workers |-> IF sess[w].id = NoSession \/ seen[w] >= OldestAge
                                  THEN seen[w] ELSE seen[w] + 1]
  /\ challenge' = [k \in Challenges |->
                     IF challenge[k].st # "issued" \/ challenge[k].left <= -MaxLag
                       THEN challenge[k] ELSE [challenge[k] EXCEPT !.left = @ - 1]]
  /\ UNCHANGED <<sess, revoked, messages, spooled, entered, acked, received, call>>

OtherConnection ==
  /\ \/ \E t \in Tasks : CreateTask(t) \/ \E d \in Lags : ReclaimExpired(t, d)
     \/ \E c \in Clients \ {Gate} :
          \/ \E t \in Tasks : ReviewRead(c, t) \/ StaleRead(c, t)
          \/ \E d \in Lags : StaleSelect(c, d)
          \/ ReviewWrite(c) \/ StaleWrite(c) \/ Crash(c)
  /\ UNCHANGED gateVars

SessionStep ==
  \E w \in Workers :
    \/ RevokeProfile(w)
    \/ \E k \in Challenges :
         \/ IssueChallenge(w, k)
         \/ \E s \in Sessions, c \in Capacities, d \in Lags : Authenticate(w, s, k, c, d)

FrameStep ==
  \E w \in Workers, m \in Messages, q \in 1..MaxSeq :
    \/ \E o \in -1..OldestAge, k \in Capacities, d \in Lags : HeartbeatFrame(w, m, q, o, k, d)
    \/ \E i \in entered : AckFrame(w, m, q, i)
    \/ \E i \in entered, d \in Lags : ResultFrame(w, m, q, i, d)

RouteStep == \E t \in Tasks, d \in Lags : RouteNobody(t, d) \/ \E w \in Workers : Route(t, w, d)

CallProgress ==
  \/ RecordMessage \/ AdvanceSession \/ Refused \/ MarkAck \/ MarkResult
  \/ RevokeSession \/ EnterDispatch
  \/ \E d \in Lags : ApplyAck(d) \/ SpoolDispatch(d) \/ \E e \in Evidence : ApplyResult(e, d)

GNext ==
  \/ GTick \/ OtherConnection \/ SessionStep \/ FrameStep \/ RouteStep \/ CallProgress
  \/ Restart

GSpec == GInit /\ [][GNext]_gvars
-----------------------------------------------------------------------------
(* Properties. *)

\* Whatever statement the process died in, the durable rows of a dispatch tell
\* the truth about its task: an acknowledged lease is running or delivered, a
\* received result is under review, and no row runs ahead of its spool frame.
DispatchRowsTrue ==
  /\ received \subseteq acked /\ acked \subseteq entered /\ entered \subseteq spooled
  /\ \A i \in acked : HeldAs(i) => state[TaskOf(i)] \in {"RUNNING", "REVIEW_PENDING"}
  /\ \A i \in received : HeldAs(i) => state[TaskOf(i)] = "REVIEW_PENDING"

\* A lease is handed to one session only: re-authentication and retried routing
\* never leave two dispatches that could both be acknowledged.
OneDispatchPerLease ==
  \A i, j \in spooled : TaskOf(i) = TaskOf(j) /\ LeaseOf(i) = LeaseOf(j) => i = j

\* Work runs only as dispatched, and evidence under review was delivered against
\* an acknowledged dispatch of the lease the task still has.
EvidenceFromAcker ==
  \A t \in Tasks :
    /\ state[t] = "RUNNING" => \E i \in entered : TaskOf(i) = t /\ HeldAs(i)
    /\ state[t] = "REVIEW_PENDING" => \E i \in acked : TaskOf(i) = t /\ HeldAs(i)

\* A connected session is pushed out by nobody but another worker that was
\* given the same session id.
SessionKept ==
  [][\A w \in Workers : Connected(w, 0) /\ sess'[w].id # sess[w].id =>
       \E v \in Workers \ {w} : sess'[v].id = sess[w].id]_gvars

\* No worker starts work or delivers evidence after its revocation, or with a
\* session that was not authenticated since the gateway restarted.
Acts(t) ==
  \/ rows'[t] # rows[t]
  \/ state[t] = "LEASED" /\ state'[t] = "RUNNING"
OnlyTrustedAct ==
  [][\A t \in Tasks : Acts(t) =>
       owner[t] \notin revoked /\ sess[owner[t]].st = "AUTHENTICATED"]_gvars
=============================================================================
