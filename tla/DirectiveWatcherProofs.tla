---------------------- MODULE DirectiveWatcherProofs ----------------------
(***************************************************************************)
(* Proofs about DirectiveWatcher, for any names, ids and documents.        *)
(* What was accepted is in the queue because enqueue_payload comes first   *)
(* and appending removes no readable line but one left without its         *)
(* newline; what is decided stays decided because the memory of a running  *)
(* watcher always knows at least what the ledger file says.                *)
(***************************************************************************)
EXTENDS DirectiveWatcher, TLAPS

\* A running watcher remembers every readable line of the ledger.
MemoryKnowsLedger == pc # "down" => Readable(ledgerFile) \subseteq consumed

OneDecisionPerId ==
    /\ \A c, d \in consumed : c.id = d.id => c = d
    /\ \A c, d \in Readable(ledgerFile) : c.id = d.id => c = d

\* The queue records that a reader finds or has found: they only grow.
Found == Readable(queueFile) \cup spoiled

\* What was accepted is among them.
AcceptedIsFound ==
    \A i \in Ids :
        \/ acks[i] = "ACCEPTED"
        \/ \E c \in consumed \cup Readable(ledgerFile) : c.id = i /\ c.decision = "ACCEPTED"
        => i \in IdsOf(Found)

\* A record is spoiled only together with its line.
SpoiledIsBroken ==
    /\ spoiled # {} => broken
    /\ queueFile.tail # {} => queueFile.open

\* The file in hand passed the replay check, and what is accepted is queued.
HandChecked ==
    \A c \in cur :
        /\ pc \in {"enqueue", "record"} => c.doc.id \notin IdsOf(consumed)
        /\ pc # "enqueue" /\ c.decision = "ACCEPTED" =>
             c.doc.id \in IdsOf(Found)

WatcherInv ==
    /\ WTypeOK /\ AcceptedIsFound /\ MemoryKnowsLedger /\ OneDecisionPerId
    /\ HandChecked /\ SpoiledIsBroken

----------------------------------------------------------------------------
(* The file in hand. *)

\* While a file is in hand, InHand is the one element of cur.
LEMMA HandIsCurrent ==
    ASSUME WTypeOK, pc \in {"enqueue", "record", "ack", "move"}
    PROVE  /\ cur = {InHand} /\ InHand \in Hands
           /\ InHand.doc \in Docs /\ inbox[InHand.name] = InHand.doc
           /\ InHand.doc.id \in Ids /\ InHand.doc.commit \in Commits
           /\ InHand.decision \in Decisions /\ InHand.name \in Names
<1>1. PICK c \in Hands : cur = {c} /\ inbox[c.name] = c.doc
  BY DEF WTypeOK
<1>2. InHand = c
  BY <1>1 DEF InHand
<1> QED BY <1>1, <1>2, DocsAssumption DEF Hands

\* The log lines made of the file in hand are well formed.
LEMMA LinesTyped ==
    ASSUME WTypeOK, pc \in {"enqueue", "record", "ack", "move"}
    PROVE  /\ Record(InHand) \in Records /\ Record(InHand).id = InHand.doc.id
           /\ Consumption(InHand) \in Consumptions
           /\ Consumption(InHand).id = InHand.doc.id
           /\ Consumption(InHand).decision = InHand.decision
  BY HandIsCurrent DEF Record, Consumption, Records, Consumptions

\* Writing a line: whatever of it arrives, at most the new record becomes
\* readable, and only a record on the open last line can cease to be.
LEMMA WritingKeeps ==
    ASSUME NEW R, NEW log \in Log(R), NEW r \in R,
           NEW l \in Torn(log, r) \cup {Appended(log, r)}
    PROVE  /\ l \in Log(R)
           /\ Readable(l) \subseteq Readable(log) \cup {r}
           /\ Readable(log) \subseteq Readable(l) \cup log.tail
<1>1. CASE l = log
  BY <1>1 DEF Readable
<1>2. CASE \E open \in BOOLEAN : l = Continued(log, open)
  <2>1. PICK open \in BOOLEAN : l = [log EXCEPT !.open = open, !.tail = {}]
    BY <1>2 DEF Continued
  <2>2. /\ l \in Log(R)
        /\ l.records = log.records /\ l.tail = {}
    BY <2>1 DEF Log
  <2> QED BY <2>2 DEF Readable
<1>3. CASE l = [log EXCEPT !.open = TRUE, !.tail = {r}]
  <2>1. /\ l \in Log(R)
        /\ l.records = log.records /\ l.tail = {r}
    BY <1>3 DEF Log
  <2> QED BY <2>1 DEF Readable
<1>4. CASE l = [log EXCEPT !.records = @ \cup {r}]
  <2>1. /\ l \in Log(R)
        /\ l.records = log.records \cup {r} /\ l.tail = log.tail
    BY <1>4 DEF Log
  <2> QED BY <2>1 DEF Readable
<1> QED BY <1>1, <1>2, <1>3, <1>4 DEF Torn, Appended

\* An append to a log that ends in a newline is read back.
LEMMA AppendedIsReadable ==
    ASSUME NEW R, NEW log \in Log(R), NEW r \in R, ~log.open
    PROVE  r \in Readable(Appended(log, r))
  BY DEF Appended, Log, Readable

\* A write of the queue file loses no record without a trace.
LEMMA QueueWritten ==
    ASSUME WTypeOK, SpoiledIsBroken, NEW r \in Records, NEW outcomes,
           outcomes \subseteq Torn(queueFile, r) \cup {Appended(queueFile, r), queueFile},
           WriteQueue(outcomes)
    PROVE  /\ queueFile' \in Log(Records) /\ broken' \in BOOLEAN /\ spoiled' \subseteq Records
           /\ Found \subseteq Found' /\ SpoiledIsBroken'
           /\ Readable(queueFile') \subseteq Readable(queueFile) \cup {r}
<1>1. queueFile \in Log(Records) /\ broken \in BOOLEAN /\ spoiled \subseteq Records
  BY DEF WTypeOK
<1>2. queueFile' \in Torn(queueFile, r) \cup {Appended(queueFile, r), queueFile}
  BY DEF WriteQueue
<1>3. /\ queueFile' \in Log(Records)
      /\ Readable(queueFile') \subseteq Readable(queueFile) \cup {r}
      /\ Readable(queueFile) \subseteq Readable(queueFile') \cup queueFile.tail
  BY <1>1, <1>2, WritingKeeps
<1>4. Readable(queueFile) \subseteq Records
  BY <1>1 DEF Log, Readable
<1>5. broken' = (\/ broken
                 \/ queueFile'.open /\ queueFile'.tail = {}
                 \/ queueFile.open /\ queueFile' # queueFile)
  BY DEF WriteQueue
<1>6. broken' \in BOOLEAN
  BY <1>1, <1>3, <1>5 DEF Log
<1>7. spoiled' = spoiled \cup (Readable(queueFile) \ Readable(queueFile'))
  BY DEF WriteQueue
<1>8. queueFile'.tail # {} => queueFile'.open
  BY <1>1, <1>2 DEF Torn, Appended, Continued, Log, SpoiledIsBroken
<1>9. spoiled' # {} => broken'
  <2>1. CASE spoiled # {}
    BY <1>5, <2>1 DEF SpoiledIsBroken
  <2>2. CASE Readable(queueFile) \ Readable(queueFile') # {}
    <3>1. queueFile.tail # {} /\ queueFile' # queueFile
      BY <1>3, <2>2
    <3> QED BY <1>5, <3>1 DEF SpoiledIsBroken
  <2> QED BY <1>7, <2>1, <2>2
<1> QED BY <1>3, <1>4, <1>1, <1>6, <1>7, <1>8, <1>9 DEF Found, SpoiledIsBroken

----------------------------------------------------------------------------

LEMMA InitWatcher == WInit => WatcherInv
<1> SUFFICES ASSUME WInit PROVE WatcherInv
  OBVIOUS
<1>1. /\ EmptyLog \in Log(Records) /\ EmptyLog \in Log(Consumptions)
      /\ Readable(EmptyLog) = {} /\ EmptyLog.tail = {}
  BY DEF EmptyLog, Log, Readable
<1>4. /\ inbox \in [Names -> Docs \cup {NoDoc}]
      /\ acks \in [Ids -> Decisions \cup {NoAck}]
      /\ handled \in [Counted -> 0..2]
  BY DEF WInit
<1>2. WTypeOK
  BY <1>1, <1>4 DEF WInit, WTypeOK
<1>3. \A i \in Ids : acks[i] # "ACCEPTED"
  BY DocsAssumption DEF WInit
<1> QED BY <1>1, <1>2, <1>3
    DEF WInit, WatcherInv, AcceptedIsFound, MemoryKnowsLedger, OneDecisionPerId,
        HandChecked, SpoiledIsBroken

\* Steps that touch no log and take no decision.
LEMMA QuietSteps ==
    ASSUME WatcherInv,
           (\E n \in Names, d \in Docs : Deliver(n, d)) \/ ListInbox \/ MoveAway \/ MoveFails
    PROVE  WatcherInv'
<1>1. CASE \E n \in Names, d \in Docs : Deliver(n, d)
  <2>1. PICK n \in Names, d \in Docs : Deliver(n, d)
    BY <1>1
  <2>2. \A c \in Hands : inbox[c.name] = c.doc => inbox'[c.name] = c.doc
    BY <2>1, DocsAssumption DEF Deliver, Hands, WatcherInv, WTypeOK
  <2>3. WTypeOK'
    BY <2>1, <2>2 DEF Deliver, WatcherInv, WTypeOK, memory
  <2> QED BY <2>1, <2>3 DEF Deliver, WatcherInv, AcceptedIsFound, MemoryKnowsLedger,
            OneDecisionPerId, HandChecked, SpoiledIsBroken, Found, memory
<1>2. CASE ListInbox
  BY <1>2 DEF ListInbox, WatcherInv, WTypeOK, AcceptedIsFound, MemoryKnowsLedger,
       OneDecisionPerId, HandChecked, SpoiledIsBroken, Found, disk
<1>3. CASE MoveAway
  <2>1. InHand.name \in Names /\ cur = {InHand}
    BY <1>3, HandIsCurrent DEF MoveAway, WatcherInv
  <2>2. batch \subseteq {n \in Names \ {InHand.name} : inbox[n] # NoDoc}
    BY <2>1 DEF WatcherInv, WTypeOK
  <2>3. inbox' \in [Names -> Docs \cup {NoDoc}] /\ \A n \in batch : inbox'[n] # NoDoc
    BY <1>3, <2>1, <2>2 DEF MoveAway, WatcherInv, WTypeOK
  <2>4. WTypeOK'
    BY <1>3, <2>2, <2>3 DEF MoveAway, WatcherInv, WTypeOK
  <2> QED BY <1>3, <2>4 DEF MoveAway, WatcherInv, AcceptedIsFound, MemoryKnowsLedger,
            OneDecisionPerId, HandChecked, SpoiledIsBroken, Found
<1>4. CASE MoveFails
  BY <1>4 DEF MoveFails, WatcherInv, WTypeOK, AcceptedIsFound, MemoryKnowsLedger,
       OneDecisionPerId, HandChecked, SpoiledIsBroken, Found, disk
<1> QED BY <1>1, <1>2, <1>3, <1>4

\* A new process starts from what both files hold.
LEMMA BootStep == WatcherInv /\ Boot => WatcherInv'
<1> SUFFICES ASSUME WatcherInv, Boot PROVE WatcherInv'
  OBVIOUS
<1>1. queued' \subseteq Readable(queueFile)
  BY DEF Boot, Loads
<1>2. consumed' \subseteq Consumptions
  BY DEF Boot, WatcherInv, WTypeOK, Log, Readable
<1>3. WTypeOK'
  BY <1>1, <1>2 DEF Boot, WatcherInv, WTypeOK, disk
<1> QED BY <1>3 DEF Boot, WatcherInv, AcceptedIsFound, MemoryKnowsLedger, OneDecisionPerId,
          HandChecked, SpoiledIsBroken, Found, disk

\* Taking the next file: only one that passed the replay check goes on to the
\* queue or the ledger, and none is accepted before it is queued.
LEMMA TakeSteps ==
    ASSUME WatcherInv, RejectInvalid \/ RejectReplay \/ RejectUnauthentic \/ Admit
    PROVE  WatcherInv'
<1>1. PICK decision \in Decisions, next \in {"enqueue", "record", "ack"} :
        /\ Take(decision, next)
        /\ next = "enqueue" \/ decision = "REJECTED"
        /\ next # "ack" => \E c \in cur' : ~IsConsumed(c)
  BY DEF RejectInvalid, RejectReplay, RejectUnauthentic, Admit, Decisions
<1>2. PICK n \in batch :
        /\ cur' = {[name |-> n, doc |-> inbox[n], decision |-> decision]}
        /\ batch' = batch \ {n}
  BY <1>1 DEF Take
<1>3. n \in Names /\ inbox[n] \in Docs
  BY DEF WatcherInv, WTypeOK
<1>4. WTypeOK'
  BY <1>1, <1>2, <1>3 DEF Take, WatcherInv, WTypeOK, disk, Hands
<1>5. next # "ack" => inbox[n].id \notin IdsOf(consumed)
  BY <1>1, <1>2 DEF IsConsumed
<1>6. HandChecked'
  BY <1>1, <1>2, <1>5 DEF Take, HandChecked, Found, disk
<1> QED BY <1>1, <1>4, <1>6 DEF Take, WatcherInv, AcceptedIsFound, MemoryKnowsLedger,
          OneDecisionPerId, SpoiledIsBroken, Found, disk

\* The queue file grows by at most the record in hand, in every way out of
\* enqueue_payload; only a verified record is remembered.
LEMMA EnqueueSteps ==
    ASSUME WatcherInv,
           EnqueueKnown \/ EnqueueRefused \/ EnqueueVerified
             \/ EnqueueUnverified \/ EnqueueUnwritten
    PROVE  WatcherInv'
<1>1. pc = "enqueue" /\ UNCHANGED <<inbox, ledgerFile, acks, consumed, batch, handled>>
  BY DEF EnqueueKnown, EnqueueRefused, EnqueueVerified, EnqueueUnverified, EnqueueUnwritten,
      Enqueued, NotEnqueued
<1>2. /\ cur = {InHand} /\ InHand \in Hands /\ inbox[InHand.name] = InHand.doc
      /\ Record(InHand) \in Records /\ Record(InHand).id = InHand.doc.id
  BY <1>1, HandIsCurrent, LinesTyped DEF WatcherInv
<1>3. /\ queueFile' \in Log(Records) /\ broken' \in BOOLEAN /\ spoiled' \subseteq Records
      /\ Found \subseteq Found' /\ SpoiledIsBroken'
  <2>1. CASE UNCHANGED <<queueFile, broken, spoiled>>
    BY <2>1 DEF WatcherInv, WTypeOK, Found, SpoiledIsBroken
  <2>2. CASE WriteQueue({Appended(queueFile, Record(InHand))})
    BY <1>2, <2>2, QueueWritten DEF WatcherInv
  <2>3. CASE WriteQueue(Torn(queueFile, Record(InHand)))
    BY <1>2, <2>3, QueueWritten DEF WatcherInv
  <2> QED BY <2>1, <2>2, <2>3
      DEF EnqueueKnown, EnqueueRefused, EnqueueVerified, EnqueueUnverified, EnqueueUnwritten
<1>9. EnqueueVerified => Record(InHand) \in Found'
  <2> SUFFICES ASSUME EnqueueVerified PROVE Record(InHand) \in Found'
    OBVIOUS
  <2>1. Record(InHand) \in Readable(Appended(queueFile, Record(InHand)))
    BY <1>2, AppendedIsReadable DEF EnqueueVerified, WatcherInv, WTypeOK
  <2> QED BY <2>1 DEF EnqueueVerified, WriteQueue, Found
<1>4. queued' \subseteq Found'
  <2>1. queued \subseteq Found
    BY DEF WatcherInv, WTypeOK, Found
  <2> QED BY <1>3, <1>9, <2>1
      DEF EnqueueKnown, EnqueueRefused, EnqueueVerified, EnqueueUnverified, EnqueueUnwritten,
          NotEnqueued
<1>5. /\ pc' \in {"record", "ack"}
      /\ \E c \in Hands : /\ cur' = {c} /\ c.name = InHand.name /\ c.doc = InHand.doc
                          /\ c.decision = "ACCEPTED" => InHand.doc.id \in IdsOf(Found')
  <2>1. CASE EnqueueKnown
    <3>1. InHand.doc.id \in IdsOf(Found')
      BY <1>4, <2>1 DEF EnqueueKnown, Known, IdsOf
    <3> QED BY <1>2, <2>1, <3>1 DEF EnqueueKnown, Enqueued
  <2>2. CASE EnqueueVerified
    <3>2. InHand.doc.id \in IdsOf(Found')
      BY <1>2, <1>9, <2>2 DEF IdsOf
    <3> QED BY <1>2, <2>2, <3>2 DEF EnqueueVerified, Enqueued
  <2>3. CASE NotEnqueued
    <3>1. CASE InHand.decision = "WAITING_HUMAN"
      BY <1>2, <2>3, <3>1 DEF NotEnqueued
    <3>2. CASE InHand.decision # "WAITING_HUMAN"
      <4>1. [InHand EXCEPT !.decision = "REJECTED"] \in Hands
        BY <1>2 DEF Hands, Decisions
      <4> QED BY <1>2, <2>3, <3>2, <4>1 DEF NotEnqueued, Hands
    <3> QED BY <3>1, <3>2
  <2> QED BY <2>1, <2>2, <2>3 DEF EnqueueRefused, EnqueueUnverified, EnqueueUnwritten
<1>6. WTypeOK'
  BY <1>1, <1>2, <1>3, <1>4, <1>5 DEF WatcherInv, WTypeOK, Found
<1>7. IdsOf(Found) \subseteq IdsOf(Found')
  BY <1>3 DEF IdsOf
<1>8. HandChecked'
  BY <1>1, <1>2, <1>5 DEF WatcherInv, HandChecked
<1> QED BY <1>1, <1>3, <1>6, <1>7, <1>8 DEF WatcherInv, AcceptedIsFound, MemoryKnowsLedger, OneDecisionPerId

\* record_consumption decides an id that was not decided before.
LEMMA RecordStep == WatcherInv /\ RecordConsumption => WatcherInv'
<1> SUFFICES ASSUME WatcherInv, RecordConsumption PROVE WatcherInv'
  OBVIOUS
<1>1. /\ cur = {InHand} /\ InHand \in Hands /\ InHand.doc.id \in Ids
      /\ Consumption(InHand) \in Consumptions
      /\ Consumption(InHand).id = InHand.doc.id
      /\ Consumption(InHand).decision = InHand.decision
  BY HandIsCurrent, LinesTyped DEF WatcherInv, RecordConsumption
<1>2. /\ ledgerFile' \in Log(Consumptions)
      /\ Readable(ledgerFile') \subseteq Readable(ledgerFile) \cup {Consumption(InHand)}
  BY <1>1, WritingKeeps DEF RecordConsumption, WatcherInv, WTypeOK
<1>3. InHand.doc.id \notin IdsOf(consumed)
  BY <1>1 DEF WatcherInv, HandChecked, RecordConsumption
<1>4. Readable(ledgerFile) \subseteq consumed /\ consumed' = consumed \cup {Consumption(InHand)}
  BY DEF WatcherInv, MemoryKnowsLedger, RecordConsumption
<1>5. handled' \in [Counted -> 0..2]
  BY DEF RecordConsumption, WatcherInv, WTypeOK
<1>6. WTypeOK'
  BY <1>1, <1>2, <1>4, <1>5 DEF RecordConsumption, WatcherInv, WTypeOK
<1>7. OneDecisionPerId' /\ MemoryKnowsLedger'
  BY <1>1, <1>2, <1>3, <1>4 DEF WatcherInv, OneDecisionPerId, MemoryKnowsLedger, IdsOf
<1>8. InHand.decision = "ACCEPTED" => InHand.doc.id \in IdsOf(Found)
  BY <1>1 DEF WatcherInv, HandChecked, RecordConsumption
<1>9. AcceptedIsFound'
  BY <1>1, <1>2, <1>4, <1>8 DEF WatcherInv, AcceptedIsFound, RecordConsumption, Found
<1>10. HandChecked'
  BY <1>1, <1>8 DEF HandChecked, RecordConsumption, Found
<1>11. SpoiledIsBroken'
  BY DEF WatcherInv, SpoiledIsBroken, RecordConsumption
<1> QED BY <1>6, <1>7, <1>9, <1>10, <1>11 DEF WatcherInv

\* An acknowledgement repeats the decision in hand, or is lost.
LEMMA AckStep == WatcherInv /\ WriteAck => WatcherInv'
<1> SUFFICES ASSUME WatcherInv, WriteAck PROVE WatcherInv'
  OBVIOUS
<1>1. /\ cur = {InHand} /\ InHand \in Hands /\ InHand.doc.id \in Ids
      /\ InHand.decision \in Decisions
  BY HandIsCurrent DEF WatcherInv, WriteAck
<1>2. InHand.decision = "ACCEPTED" => InHand.doc.id \in IdsOf(Found)
  BY <1>1 DEF WatcherInv, HandChecked, WriteAck
<1>3. PICK a \in {InHand.decision, NoAck, acks[InHand.doc.id]} :
        acks' = [acks EXCEPT ![InHand.doc.id] = a]
  BY DEF WriteAck
<1>4. WTypeOK'
  BY <1>1, <1>3 DEF WriteAck, WatcherInv, WTypeOK, memory
<1>5. AcceptedIsFound'
  BY <1>1, <1>2, <1>3, DocsAssumption
  DEF WriteAck, WatcherInv, WTypeOK, AcceptedIsFound, Found, memory
<1> QED BY <1>4, <1>5 DEF WriteAck, WatcherInv, MemoryKnowsLedger, OneDecisionPerId,
          HandChecked, SpoiledIsBroken, Found, memory

\* A crash takes the memory; in the files it may cut the line being written.
LEMMA CrashStep == WatcherInv /\ Crash => WatcherInv'
<1> SUFFICES ASSUME WatcherInv, Crash PROVE WatcherInv'
  OBVIOUS
<1>1. /\ queueFile' \in Log(Records) /\ broken' \in BOOLEAN /\ spoiled' \subseteq Records
      /\ Found \subseteq Found' /\ SpoiledIsBroken'
  <2>1. CASE pc = "enqueue" /\ Fits /\ ~Known
    BY <2>1, LinesTyped, QueueWritten DEF Crash, WatcherInv
  <2>2. CASE ~(pc = "enqueue" /\ Fits /\ ~Known)
    <3>1. WriteQueue({queueFile})
      BY <2>2 DEF Crash
    <3> QED BY <3>1 DEF WriteQueue, WatcherInv, WTypeOK, Found, SpoiledIsBroken
  <2> QED BY <2>1, <2>2
<1>2. /\ ledgerFile' \in Log(Consumptions)
      /\ Readable(ledgerFile') \subseteq Readable(ledgerFile) \cup {Consumption(InHand)}
      /\ pc # "record" => ledgerFile' = ledgerFile
  BY LinesTyped, WritingKeeps DEF Crash, WatcherInv, WTypeOK
<1>3. acks' \in [Ids -> Decisions \cup {NoAck}] /\ \A i \in Ids : acks'[i] \in {acks[i], NoAck}
  BY DEF Crash, WatcherInv, WTypeOK
<1>4. WTypeOK'
  BY <1>1, <1>2, <1>3 DEF Crash, WatcherInv, WTypeOK
<1>5. pc = "record" =>
        /\ Consumption(InHand).id = InHand.doc.id
        /\ Consumption(InHand).decision = InHand.decision
        /\ InHand.doc.id \notin IdsOf(consumed)
        /\ InHand.decision = "ACCEPTED" => InHand.doc.id \in IdsOf(Found)
  BY HandIsCurrent, LinesTyped DEF WatcherInv, HandChecked
<1>6. AcceptedIsFound'
  <2>1. IdsOf(Found) \subseteq IdsOf(Found')
    BY <1>1 DEF IdsOf
  <2>2. consumed' = {}
    BY DEF Crash
  <2> QED BY <1>2, <1>3, <1>5, <2>1, <2>2, DocsAssumption DEF WatcherInv, AcceptedIsFound
<1>7. OneDecisionPerId'
  <2>1. consumed' = {} /\ Readable(ledgerFile) \subseteq consumed
    BY DEF Crash, WatcherInv, MemoryKnowsLedger
  <2>2. CASE pc = "record"
    BY <1>2, <1>5, <2>1, <2>2 DEF WatcherInv, OneDecisionPerId, IdsOf
  <2>3. CASE pc # "record"
    BY <1>2, <2>1, <2>3 DEF WatcherInv, OneDecisionPerId
  <2> QED BY <2>2, <2>3
<1> QED BY <1>1, <1>4, <1>6, <1>7 DEF Crash, WatcherInv, MemoryKnowsLedger, HandChecked

LEMMA WatcherInvStep == WatcherInv /\ [WNext]_vars => WatcherInv'
<1> SUFFICES ASSUME WatcherInv, [WNext]_vars PROVE WatcherInv'
  OBVIOUS
<1>1. CASE UNCHANGED vars
  BY <1>1 DEF vars, disk, memory, WatcherInv, WTypeOK, AcceptedIsFound, MemoryKnowsLedger,
       OneDecisionPerId, HandChecked, SpoiledIsBroken, Found
<1>2. CASE WNext
  BY <1>2, QuietSteps, BootStep, TakeSteps, EnqueueSteps, RecordStep, AckStep, CrashStep
  DEF WNext, WatcherStep
<1> QED BY <1>1, <1>2

----------------------------------------------------------------------------

\* The invariant that carries the results below.
THEOREM WatcherInvariance == WSpec => []WatcherInv
  BY InitWatcher, WatcherInvStep, PTL DEF WSpec

\* No accepted directive is lost between the queue, the ledger and the
\* acknowledgements, whatever fails.
THEOREM AcceptedDirectivesQueued == WSpec => []AcceptedIsQueued
<1>1. WatcherInv => AcceptedIsQueued
  BY DEF WatcherInv, AcceptedIsFound, AcceptedIsQueued, SpoiledIsBroken, Found, IdsOf
<1> QED BY <1>1, WatcherInvariance, PTL

\* While the ledger file holds a decision it is the only one of its id, across
\* restarts and torn lines; only one without its newline can leave the file.
THEOREM DecisionsFinal == WSpec => DecidedStaysDecided
<1> DEFINE Final ==
      \A c \in Readable(ledgerFile) :
        LET now == {d \in Readable(ledgerFile') : d.id = c.id}
        IN  /\ now \subseteq {c}
            /\ now = {c} \/ c \in ledgerFile.tail
            /\ \A r \in Readable(queueFile') \ Readable(queueFile) : r.id # c.id
<1>1. WatcherInv /\ [WNext]_vars => [Final]_vars
  <2> SUFFICES ASSUME WatcherInv, WNext, NEW c \in Readable(ledgerFile)
               PROVE  LET now == {d \in Readable(ledgerFile') : d.id = c.id}
                      IN  /\ now \subseteq {c}
                          /\ now = {c} \/ c \in ledgerFile.tail
                          /\ \A r \in Readable(queueFile') \ Readable(queueFile) : r.id # c.id
    OBVIOUS
  <2>1. ledgerFile' # ledgerFile =>
          /\ pc = "record"
          /\ ledgerFile' \in Torn(ledgerFile, Consumption(InHand))
                             \cup {Appended(ledgerFile, Consumption(InHand))}
    BY DEF WNext, WatcherStep, Deliver, Boot, ListInbox, RejectInvalid, RejectReplay,
           RejectUnauthentic, Admit, Take, EnqueueKnown, EnqueueRefused, EnqueueVerified,
           EnqueueUnverified, EnqueueUnwritten, Enqueued, NotEnqueued, RecordConsumption,
           WriteAck, MoveAway, MoveFails, Crash, disk, memory
  <2>2. \A d \in Readable(ledgerFile) : d.id = c.id => d = c
    BY DEF WatcherInv, OneDecisionPerId
  <2>3. pc # "down" => c.id \in IdsOf(consumed)
    BY DEF WatcherInv, MemoryKnowsLedger, IdsOf
  <2>4. /\ \A d \in Readable(ledgerFile') : d.id = c.id => d = c
        /\ c \in Readable(ledgerFile') \/ c \in ledgerFile.tail
    <3>1. CASE ledgerFile' = ledgerFile
      BY <2>2, <3>1
    <3>2. CASE ledgerFile' # ledgerFile
      <4>1. /\ Readable(ledgerFile') \subseteq Readable(ledgerFile) \cup {Consumption(InHand)}
            /\ Readable(ledgerFile) \subseteq Readable(ledgerFile') \cup ledgerFile.tail
        BY <2>1, <3>2, LinesTyped, WritingKeeps DEF WatcherInv, WTypeOK
      <4>2. Consumption(InHand).id # c.id
        BY <2>1, <2>3, <3>2, HandIsCurrent, LinesTyped DEF WatcherInv, HandChecked
      <4> QED BY <2>2, <4>1, <4>2
    <3> QED BY <3>1, <3>2
  <2>5. ASSUME NEW r \in Readable(queueFile') \ Readable(queueFile)
        PROVE  r.id # c.id
    <3>1. pc = "enqueue" /\ queueFile' \in Torn(queueFile, Record(InHand))
                                            \cup {Appended(queueFile, Record(InHand))}
      BY <2>5
      DEF WNext, WatcherStep, Deliver, Boot, ListInbox, RejectInvalid, RejectReplay,
          RejectUnauthentic, Admit, Take, EnqueueKnown, EnqueueRefused, EnqueueVerified,
          EnqueueUnverified, EnqueueUnwritten, RecordConsumption, WriteAck, MoveAway,
          MoveFails, Crash, WriteQueue, disk, memory
    <3>2. r = Record(InHand)
      BY <2>5, <3>1, LinesTyped, WritingKeeps DEF WatcherInv, WTypeOK
    <3>3. InHand.doc.id \notin IdsOf(consumed)
      BY <3>1, HandIsCurrent DEF WatcherInv, HandChecked
    <3> QED BY <2>3, <3>1, <3>2, <3>3, LinesTyped DEF WatcherInv
  <2> QED BY <2>4, <2>5
<1> QED BY <1>1, WatcherInvariance, PTL DEF WSpec, DecidedStaysDecided
=============================================================================
